---- MODULE Spec2Model ----
(***************************************************************************)
(* A model of src/autonomous_ensemble.py: the three-stage ModelPipeline,   *)
(* the WorkflowEngine step loop with checkpoint/resume, the StateManager   *)
(* and the Checkpoint store (JSON on disk).                                *)
(*                                                                         *)
(* Text is modelled as a sequence of characters.  A character is a TLA+    *)
(* string; the fixed literals of the program's f-strings ("--- Step ",     *)
(* " Output ---", the JSON key names) are single characters of the         *)
(* alphabet, the characters JSON treats specially (double quote,           *)
(* backslash, line feed) are characters of their own.                      *)
(***************************************************************************)
EXTENDS Integers, Sequences, FiniteSets, TLC

VARIABLES
    guide,            \* content of the guide file: a sequence of lines, or NoGuide
    script,           \* the fixed sequence of generation responses (the mock)
    max_iterations,   \* Config.max_iterations
    hooks,            \* the PipelineHooks that are not None
    fs,               \* checkpoint storage: path -> NoFile or file text
    output_file,      \* content of Config.output_file: NoFile or text
    pc,               \* position of the running call
    runs,             \* number of WorkflowEngine.run calls made so far
    checkpoint_file,  \* WorkflowEngine.checkpoint_file (None or a path)
    resume_from,      \* run's resume_from argument (None or a path)
    state,            \* WorkflowEngine.state, the StateManager
    steps,            \* run's local: the parsed step descriptions
    i,                \* run's local: loop index of the step in flight
    ctx,              \* the StepContext of the step in flight
    current,          \* local "current" of the iterative stage in flight
    iter,             \* local pass index of the iterative stage in flight
    calls,            \* requests given to OllamaClient.query for this step
    requests,         \* number of requests given to the client in this run
    raw,              \* what each stage method returned, before its hook
    hookLog,          \* hook invocations of this step, in order
    err,              \* the exception run ended with ("None" if none)
    clientFailure,    \* the failure OllamaClient.query raised ("None" if none)
    saves,            \* checkpoints completely written by this run
    ckObj,            \* the Checkpoint object being saved
    loaded,           \* what Checkpoint.load returned: the object or the exception
    result,           \* what run returned (NoResult while it has not returned)
    spec_content,     \* run's local: the specification text after resolution
    guide_file,       \* run's guide_file argument
    chain,            \* GuideChain: the arguments and locals of its run method
    proc,             \* the process: what it printed and how main ended
    settings,         \* Config.from_json: the file read and the Config made of it
    guide_text,       \* the lines of a guide file as text, before they are matched
    engine_outputs,   \* the output files of the engines of a chain, by name
    checkpoint,       \* run's local: the Checkpoint object it restored the state from
    client,           \* OllamaClient.query: the attempts of the request in flight
    collector,        \* the MetricsCollector, its lock and the threads calling it
    monitor           \* the PerformanceMonitor and its sampling threads

vars == <<guide, script, max_iterations, hooks, fs, output_file, pc, runs,
          checkpoint_file, resume_from, state, steps, i, ctx, current, iter,
          calls, requests, raw, hookLog, err, clientFailure, saves, ckObj,
          loaded, result, spec_content, guide_file, chain, proc, settings,
          guide_text, engine_outputs, checkpoint, client, collector, monitor>>

----------------------------------------------------------------------------
(* Bounds of the model.                                                    *)

MaxSteps == 2        \* guides have up to MaxSteps steps
MaxIter == 3         \* max_iterations ranges over 1..MaxIter
MaxRuns == 2         \* run is called at most MaxRuns times in a behaviour
CkStrLen == 1        \* length of the texts a drawn Checkpoint is built from
CkMaxCount == 2      \* completed_steps of a drawn Checkpoint is 0..CkMaxCount
MaxChain == 2        \* a chain has up to MaxChain guides
MaxLines == 4        \* a drawn guide text has up to MaxLines lines
MaxMembers == 2      \* a drawn settings record has up to MaxMembers members

----------------------------------------------------------------------------
(* Characters and text.                                                    *)

DQ == "DQ"                    \* the double quote character
BS == "BS"                    \* the backslash character
LF == "LF"                    \* the line feed character
WS == "WS"                    \* a line feed plus indentation, as json.dump(indent=2) writes
SP == "SP"                    \* one space
HdrA == "--- Step "           \* literal of the f-string in add_step_output
HdrB == " Output ---"         \* literal of the f-string in add_step_output
NoFile == <<"no file">>        \* the content of a path where no file is
None == "None"

DigitChars == <<"0", "1", "2", "3", "4", "5", "6", "7", "8", "9">>

RECURSIVE NatStr(_)
\* str(n) for n >= 0, as an f-string or json.dump formats it
NatStr(n) ==
    IF n < 10 THEN <<DigitChars[n + 1]>>
    ELSE NatStr(n \div 10) \o <<DigitChars[(n % 10) + 1]>>

IntStr(n) == IF n < 0 THEN <<"-">> \o NatStr(0 - n) ELSE NatStr(n)

IsPrefix(s, t) == Len(s) <= Len(t) /\ SubSeq(t, 1, Len(s)) = s

\* needle in hay
Contains(hay, needle) ==
    \E k \in 0..(Len(hay) - Len(needle)) : SubSeq(hay, k + 1, k + Len(needle)) = needle

RECURSIVE Flatten(_)
\* "".join(list)
Flatten(ss) == IF ss = <<>> THEN <<>> ELSE Head(ss) \o Flatten(Tail(ss))

----------------------------------------------------------------------------
(* JSON values, json.dump and json.load.                                   *)

JStr(x) == [t |-> "str", s |-> x, n |-> 0, items |-> <<>>]
JInt(k) == [t |-> "int", s |-> <<>>, n |-> k, items |-> <<>>]
JList(xs) == [t |-> "list", s |-> <<>>, n |-> 0, items |-> xs]
JObj(ps) == [t |-> "obj", s |-> <<>>, n |-> 0, items |-> ps]
JPair(k, v) == [k |-> k, v |-> v]

\* EscapeChar without the escape of the backslash
EscapeCharNoBackslash(c) ==
    IF c = DQ THEN <<BS, DQ>>
    ELSE IF c = LF THEN <<BS, "n">>
    ELSE <<c>>

\* json's escaping of one character of a string
EscapeChar(c) ==
    IF c = DQ THEN <<BS, DQ>>
    ELSE IF c = BS THEN <<BS, BS>>
    ELSE IF c = LF THEN <<BS, "n">>
    ELSE <<c>>

EncodeString(x) ==
    <<DQ>> \o Flatten([k \in 1..Len(x) |-> EscapeChar(x[k])]) \o <<DQ>>

RECURSIVE JoinItems(_)
\* the encoded items of a list or object with ",\n<indent>" between them
JoinItems(es) ==
    IF Len(es) = 1 THEN es[1]
    ELSE es[1] \o <<",", WS>> \o JoinItems(Tail(es))

RECURSIVE JsonEncode(_)
\* json.dumps(v, indent=2)
JsonEncode(v) ==
    IF v.t = "str" THEN EncodeString(v.s)
    ELSE IF v.t = "int" THEN IntStr(v.n)
    ELSE IF v.t = "list" THEN
        IF v.items = <<>> THEN <<"[", "]">>
        ELSE <<"[", WS>>
             \o JoinItems([k \in 1..Len(v.items) |-> JsonEncode(v.items[k])])
             \o <<WS, "]">>
    ELSE
        IF v.items = <<>> THEN <<"{", "}">>
        ELSE <<"{", WS>>
             \o JoinItems([k \in 1..Len(v.items) |->
                    EncodeString(v.items[k].k) \o <<":", SP>>
                    \o JsonEncode(v.items[k].v)])
             \o <<WS, "}">>

\* Result of a parsing function: ok, the value, the position after it.
Bad == [ok |-> FALSE, val |-> JInt(0), pos |-> 0]
Good(v, p) == [ok |-> TRUE, val |-> v, pos |-> p]

RECURSIVE SkipWS(_, _)
SkipWS(s, p) ==
    IF p <= Len(s) /\ s[p] \in {WS, SP, LF} THEN SkipWS(s, p + 1) ELSE p

RECURSIVE ScanString(_, _, _)
\* the characters of a JSON string up to its closing quote; p is after the opening quote
ScanString(s, p, acc) ==
    IF p > Len(s) THEN Bad
    ELSE IF s[p] = DQ THEN Good(JStr(acc), p + 1)
    ELSE IF s[p] = BS THEN
        IF p + 1 > Len(s) THEN Bad
        ELSE IF s[p + 1] \in {DQ, BS} THEN ScanString(s, p + 2, Append(acc, s[p + 1]))
        ELSE IF s[p + 1] = "n" THEN ScanString(s, p + 2, Append(acc, LF))
        ELSE Bad
    ELSE IF s[p] = LF THEN Bad
    ELSE ScanString(s, p + 1, Append(acc, s[p]))

DigitVal(c) == CHOOSE d \in 0..9 : DigitChars[d + 1] = c
IsDigit(c) == \E d \in 1..10 : DigitChars[d] = c

RECURSIVE ScanDigits(_, _, _)
ScanDigits(s, p, acc) ==
    IF p <= Len(s) /\ IsDigit(s[p])
    THEN ScanDigits(s, p + 1, acc * 10 + DigitVal(s[p]))
    ELSE Good(JInt(acc), p)

ScanNumber(s, p) ==
    IF p <= Len(s) /\ s[p] = "-" THEN
        IF p + 1 <= Len(s) /\ IsDigit(s[p + 1])
        THEN LET r == ScanDigits(s, p + 1, 0) IN Good(JInt(0 - r.val.n), r.pos)
        ELSE Bad
    ELSE ScanDigits(s, p, 0)

RECURSIVE ParseValue(_, _)
RECURSIVE ParseItems(_, _, _)
RECURSIVE ParseMembers(_, _, _)

\* the items of a list after "[" and the first skipped white space
ParseItems(s, p, acc) ==
    LET r == ParseValue(s, p) IN
    IF ~r.ok THEN Bad
    ELSE LET q == SkipWS(s, r.pos) IN
         IF q > Len(s) THEN Bad
         ELSE IF s[q] = "," THEN ParseItems(s, SkipWS(s, q + 1), Append(acc, r.val))
         ELSE IF s[q] = "]" THEN Good(JList(Append(acc, r.val)), q + 1)
         ELSE Bad

\* the members of an object after "{" and the first skipped white space
ParseMembers(s, p, acc) ==
    IF p > Len(s) \/ s[p] # DQ THEN Bad
    ELSE LET k == ScanString(s, p + 1, <<>>) IN
         IF ~k.ok THEN Bad
         ELSE LET c == SkipWS(s, k.pos) IN
              IF c > Len(s) \/ s[c] # ":" THEN Bad
              ELSE LET r == ParseValue(s, SkipWS(s, c + 1)) IN
                   IF ~r.ok THEN Bad
                   ELSE LET q == SkipWS(s, r.pos)
                            m == Append(acc, JPair(k.val.s, r.val)) IN
                        IF q > Len(s) THEN Bad
                        ELSE IF s[q] = "," THEN ParseMembers(s, SkipWS(s, q + 1), m)
                        ELSE IF s[q] = "}" THEN Good(JObj(m), q + 1)
                        ELSE Bad

ParseValue(s, p) ==
    IF p > Len(s) THEN Bad
    ELSE IF s[p] = DQ THEN ScanString(s, p + 1, <<>>)
    ELSE IF s[p] = "-" \/ IsDigit(s[p]) THEN ScanNumber(s, p)
    ELSE IF s[p] = "[" THEN
        LET q == SkipWS(s, p + 1) IN
        IF q <= Len(s) /\ s[q] = "]" THEN Good(JList(<<>>), q + 1)
        ELSE ParseItems(s, q, <<>>)
    ELSE IF s[p] = "{" THEN
        LET q == SkipWS(s, p + 1) IN
        IF q <= Len(s) /\ s[q] = "}" THEN Good(JObj(<<>>), q + 1)
        ELSE ParseMembers(s, q, <<>>)
    ELSE Bad

\* json.load of a whole file: one value, nothing but white space after it
JsonDecode(text) ==
    LET r == ParseValue(text, SkipWS(text, 1)) IN
    IF r.ok /\ SkipWS(text, r.pos) > Len(text) THEN r ELSE Bad

----------------------------------------------------------------------------
(* Checkpoint: to_dict, from_dict, save, load.                             *)

Paths == {"ckA"}       \* the checkpoint paths a caller may pass

Checkpoint(g, sp, n, out, outs, ts) ==
    [guide_file |-> g, spec |-> sp, completed_steps |-> n,
     cumulative_output |-> out, step_outputs |-> outs, timestamp |-> ts]

NoCheckpoint == Checkpoint(<<>>, <<>>, 0, <<>>, <<>>, <<>>)

ToDict(ck) ==
    JObj(<<JPair(<<"guide_file">>, JStr(ck.guide_file)),
           JPair(<<"spec">>, JStr(ck.spec)),
           JPair(<<"completed_steps">>, JInt(ck.completed_steps)),
           JPair(<<"cumulative_output">>, JStr(ck.cumulative_output)),
           JPair(<<"step_outputs">>,
                 JList([k \in 1..Len(ck.step_outputs) |-> JStr(ck.step_outputs[k])])),
           JPair(<<"timestamp">>, JStr(ck.timestamp))>>)

HasKey(d, key) == \E k \in 1..Len(d.items) : d.items[k].k = key

\* data[key]; json.load keeps the last of several members with one name
Lookup(d, key) ==
    LET last == CHOOSE k \in 1..Len(d.items) :
                    /\ d.items[k].k = key
                    /\ \A m \in (k + 1)..Len(d.items) : d.items[m].k # key
    IN d.items[last].v

RECURSIVE Native(_)
\* the Python value json.load builds for a JSON value
Native(v) ==
    IF v.t = "str" THEN v.s
    ELSE IF v.t = "int" THEN v.n
    ELSE IF v.t = "list" THEN [k \in 1..Len(v.items) |-> Native(v.items[k])]
    ELSE v

CheckpointKeys ==
    <<"guide_file", "spec", "completed_steps", "cumulative_output",
      "step_outputs", "timestamp">>

Loaded(ck) == [ok |-> TRUE, ck |-> ck, err |-> None]
LoadError(e) == [ok |-> FALSE, ck |-> NoCheckpoint, err |-> e]

FromDict(data) ==
    IF data.t # "obj" THEN LoadError("TypeError")
    ELSE IF \E k \in 1..Len(CheckpointKeys) : ~HasKey(data, <<CheckpointKeys[k]>>)
    THEN LoadError("KeyError")
    ELSE Loaded(Checkpoint(Native(Lookup(data, <<"guide_file">>)),
                           Native(Lookup(data, <<"spec">>)),
                           Native(Lookup(data, <<"completed_steps">>)),
                           Native(Lookup(data, <<"cumulative_output">>)),
                           Native(Lookup(data, <<"step_outputs">>)),
                           Native(Lookup(data, <<"timestamp">>))))

\* FileOpenW without the truncation of an existing file (mode "a")
FileOpenAppend(fsys, path) ==
    IF fsys[path] = NoFile THEN [fsys EXCEPT ![path] = <<>>] ELSE fsys

\* open(path, "w"): the file exists and is empty
FileOpenW(fsys, path) == [fsys EXCEPT ![path] = <<>>]

\* f.write(text) on the open file
FileWrite(fsys, path, text) == [fsys EXCEPT ![path] = @ \o text]

\* json.dump(self.to_dict(), f, indent=2) and the close of the file
CheckpointDump(fsys, ck, path) == FileWrite(fsys, path, JsonEncode(ToDict(ck)))

CheckpointSave(fsys, ck, path) == CheckpointDump(FileOpenW(fsys, path), ck, path)

CheckpointLoad(fsys, path) ==
    IF fsys[path] = NoFile THEN LoadError("FileNotFoundError")
    ELSE LET r == JsonDecode(fsys[path]) IN
         IF ~r.ok THEN LoadError("JSONDecodeError") ELSE FromDict(r.val)

----------------------------------------------------------------------------
(* Config: the dataclass with its defaults, and from_json.  A float is     *)
(* held as its literal.                                                    *)

Config ==
    [ollama_api |-> <<"http://localhost:11434/api/generate">>,
     model_a |-> <<"qwen2.5-coder:7b">>,
     model_b |-> <<"deepseek-coder-v2:16b">>,
     model_c |-> <<"codestral:22b">>,
     temp_creative |-> <<"0.8">>,
     temp_analytical |-> <<"0.3">>,
     temp_adversarial |-> <<"0.7">>,
     max_tokens |-> 2000,
     max_iterations |-> 3,
     output_file |-> <<"final_output.txt">>,
     verbose |-> FALSE]

\* k in cls.__dataclass_fields__
IsField(k) == Len(k) = 1 /\ k[1] \in DOMAIN Config

ConfigOk(c) == [ok |-> TRUE, config |-> c, err |-> None]
ConfigError(e) == [ok |-> FALSE, config |-> Config, err |-> e]

\* cls(**kwargs) of the dataclass: an unexpected keyword argument is a TypeError
ConfigNew(kwargs) ==
    IF \E k \in 1..Len(kwargs.items) : ~IsField(kwargs.items[k].k)
    THEN ConfigError("TypeError")
    ELSE ConfigOk([f \in DOMAIN Config |->
                      IF HasKey(kwargs, <<f>>) THEN Native(Lookup(kwargs, <<f>>))
                      ELSE Config[f]])

\* from_json that passes every member of the record to the constructor
from_json_Unfiltered(text) ==
    IF text = NoFile THEN ConfigError("FileNotFoundError")
    ELSE LET r == JsonDecode(text) IN
         IF ~r.ok THEN ConfigError("JSONDecodeError")
         ELSE IF r.val.t # "obj" THEN ConfigError("AttributeError")
         ELSE ConfigNew(r.val)

\* Config.from_json(path), where text is the content of the file at path
from_json(text) ==
    IF text = NoFile THEN ConfigError("FileNotFoundError")
    ELSE LET r == JsonDecode(text) IN
         IF ~r.ok THEN ConfigError("JSONDecodeError")
         ELSE IF r.val.t # "obj" THEN ConfigError("AttributeError")
         ELSE ConfigNew(JObj(SelectSeq(r.val.items, LAMBDA m : IsField(m.k))))

\* no Config was loaded from a file
NoSettings == [loaded |-> FALSE, file |-> NoFile, ok |-> FALSE,
               config |-> Config, err |-> None]

----------------------------------------------------------------------------
(* StateManager.                                                           *)

StateManager == [cumulative_output |-> <<>>, current_step_index |-> 0,
                 step_outputs |-> <<>>]

\* f"\n--- Step {index + 1} Output ---\n{output}\n"
Formatted(index, output) ==
    <<LF, HdrA>> \o IntStr(index + 1) \o <<HdrB, LF>> \o output \o <<LF>>

\* add_step_output with the increment of current_step_index before the header
add_step_output_IncrementFirst(st, output) ==
    [step_outputs |-> Append(st.step_outputs, output),
     cumulative_output |->
         st.cumulative_output \o Formatted(st.current_step_index + 1, output),
     current_step_index |-> st.current_step_index + 1]

\* add_step_output without the increment of current_step_index
add_step_output_NoIncrement(st, output) ==
    [step_outputs |-> Append(st.step_outputs, output),
     cumulative_output |->
         st.cumulative_output \o Formatted(st.current_step_index, output),
     current_step_index |-> st.current_step_index]

add_step_output(st, output) ==
    [step_outputs |-> Append(st.step_outputs, output),
     cumulative_output |->
         st.cumulative_output \o Formatted(st.current_step_index, output),
     current_step_index |-> st.current_step_index + 1]

get_context(st) == st.cumulative_output

----------------------------------------------------------------------------
(* GuideLoader.load.  A line of the guide is a record: the line matches    *)
(* STEP_PATTERN with the groups num and desc, or it does not match.        *)

StepLine(n, d) == [match |-> TRUE, num |-> n, desc |-> d]
OtherLine == [match |-> FALSE, num |-> 0, desc |-> <<>>]
NoGuide == <<[match |-> FALSE, num |-> 0 - 1, desc |-> <<>>]>>   \* no file at the guide path

\* the text of a guide file: characters, with LF at the end of a line
StepWords == {"Step", "step", "STEP"}       \* "Step" under re.IGNORECASE

RECURSIVE SplitLines(_)
\* for line in f: the lines of the text, each with its line feed
SplitLines(text) ==
    IF text = <<>> THEN <<>>
    ELSE IF \E k \in 1..Len(text) : text[k] = LF
    THEN LET k == CHOOSE j \in 1..Len(text) :
                      text[j] = LF /\ \A m \in 1..(j - 1) : text[m] # LF
         IN <<SubSeq(text, 1, k)>> \o SplitLines(SubSeq(text, k + 1, Len(text)))
    ELSE <<text>>

RECURSIVE Strip(_)
\* str.strip()
Strip(t) ==
    IF t = <<>> THEN t
    ELSE IF Head(t) \in {SP, LF} THEN Strip(Tail(t))
    ELSE IF t[Len(t)] \in {SP, LF} THEN Strip(SubSeq(t, 1, Len(t) - 1))
    ELSE t

\* STEP_PATTERN.match(line) for ^Step\s+(\d+):\s*(.+)$, with the groups
\* int(match.group(1)) and match.group(2).strip()
MatchStep(line) ==
    LET p1 == SkipWS(line, 2)
        d == ScanDigits(line, p1, 0)
        p3 == SkipWS(line, d.pos + 1)
    IN IF /\ Len(line) >= 1 /\ line[1] \in StepWords
          /\ p1 > 2
          /\ d.pos > p1
          /\ d.pos <= Len(line) /\ line[d.pos] = ":"
          /\ p3 <= Len(line)
       THEN StepLine(d.val.n, Strip(SubSeq(line, p3, Len(line))))
       ELSE OtherLine

\* the lines of the file at the guide path as the loop of load sees them
ReadGuide(text) ==
    IF text = NoFile THEN NoGuide
    ELSE LET ls == SplitLines(text) IN
         [k \in 1..Len(ls) |-> MatchStep(Strip(ls[k]))]

\* StepsDict where the first line of a number wins
StepsDictFirstWins(lines) ==
    LET nums == {lines[k].num : k \in {m \in 1..Len(lines) : lines[m].match}}
        first(n) == CHOOSE k \in 1..Len(lines) :
                       /\ lines[k].match /\ lines[k].num = n
                       /\ \A m \in 1..(k - 1) :
                              ~(lines[m].match /\ lines[m].num = n)
    IN [n \in nums |-> lines[first(n)].desc]

\* steps_dict after the loop over the lines: the last matching line of a number wins
StepsDict(lines) ==
    LET nums == {lines[k].num : k \in {m \in 1..Len(lines) : lines[m].match}}
        last(n) == CHOOSE k \in 1..Len(lines) :
                       /\ lines[k].match /\ lines[k].num = n
                       /\ \A m \in (k + 1)..Len(lines) :
                              ~(lines[m].match /\ lines[m].num = n)
    IN [n \in nums |-> lines[last(n)].desc]

RECURSIVE Sorted(_)
\* sorted(keys)
Sorted(S) ==
    IF S = {} THEN <<>>
    ELSE LET m == CHOOSE x \in S : \A y \in S : x <= y
         IN <<m>> \o Sorted(S \ {m})

\* GuideLoad that returns an empty list for a guide without steps
GuideLoadEmptyOk(doc) ==
    IF doc = NoGuide THEN [ok |-> FALSE, steps |-> <<>>, err |-> "FileNotFoundError"]
    ELSE LET d == StepsDict(doc)
             keys == Sorted(DOMAIN d) IN
         [ok |-> TRUE, steps |-> [k \in 1..Len(keys) |-> d[keys[k]]], err |-> None]

\* GuideLoader.load: the step descriptions, or the exception it raises
GuideLoad(doc) ==
    IF doc = NoGuide THEN [ok |-> FALSE, steps |-> <<>>, err |-> "FileNotFoundError"]
    ELSE LET d == StepsDict(doc)
             keys == Sorted(DOMAIN d) IN
         IF DOMAIN d = {} THEN [ok |-> FALSE, steps |-> <<>>, err |-> "ValueError"]
         ELSE [ok |-> TRUE, steps |-> [k \in 1..Len(keys) |-> d[keys[k]]],
               err |-> None]

----------------------------------------------------------------------------
(* The Generation Client as the pipeline sees it: OllamaClient.query       *)
(* returns the next response of the fixed script, or raises.               *)

Responses == {<<"x">>, <<"y">>}

ClientErrors == {"ConnectionError", "TimeoutError"}

QueryOutcomes ==
    {[ok |-> TRUE, err |-> None]} \cup {[ok |-> FALSE, err |-> e] : e \in ClientErrors}

\* OllamaClient.query, attempt by attempt.  What requests.post and
\* raise_for_status do in one attempt: a response with or without the
\* member "response", a connection error, a timeout while connecting
\* (requests' ConnectTimeout is a ConnectionError and a Timeout), a timeout
\* while reading, or an HTTP error status.
AttemptOutcomes ==
    {"ok", "no_member", "ConnectionError", "ConnectTimeout", "ReadTimeout",
     "HTTPError"}

retry_count == 3              \* self.retry_count

\* no request is in flight
NoClient ==
    [status |-> "idle", attempt |-> 0, outcomes |-> <<>>, bodies |-> <<>>,
     response |-> <<>>, raised |-> None]

\* the first except clause: requests.exceptions.ConnectionError
IsConnectionError(o) == o \in {"ConnectionError", "ConnectTimeout"}

\* the second except clause: requests.exceptions.Timeout
IsTimeout(o) == o \in {"ConnectTimeout", "ReadTimeout"}

\* the body of the retry loop where the last attempt that times out raises
\* ConnectionError
AttemptLastIsConnection(c, o, text) ==
    LET made == [c EXCEPT !.outcomes = Append(@, o), !.bodies = Append(@, text)] IN
    IF o = "ok" THEN [made EXCEPT !.status = "returned", !.response = text]
    ELSE IF o = "no_member" THEN [made EXCEPT !.status = "returned", !.response = <<>>]
    ELSE IF IsConnectionError(o) \/ IsTimeout(o)
    THEN IF c.attempt < retry_count - 1
         THEN [made EXCEPT !.attempt = @ + 1]
         ELSE [made EXCEPT !.status = "raised", !.raised = "ConnectionError"]
    ELSE [made EXCEPT !.status = "raised", !.raised = o]

\* the body of the retry loop for the attempt c.attempt, where the attempt
\* has the outcome o and a successful response carries the text
Attempt(c, o, text) ==
    LET made == [c EXCEPT !.outcomes = Append(@, o), !.bodies = Append(@, text)] IN
    IF o = "ok" THEN [made EXCEPT !.status = "returned", !.response = text]
    ELSE IF o = "no_member" THEN [made EXCEPT !.status = "returned", !.response = <<>>]
    ELSE IF IsConnectionError(o)
    THEN IF c.attempt < retry_count - 1
         THEN [made EXCEPT !.attempt = @ + 1]
         ELSE [made EXCEPT !.status = "raised", !.raised = "ConnectionError"]
    ELSE IF IsTimeout(o)
    THEN IF c.attempt < retry_count - 1
         THEN [made EXCEPT !.attempt = @ + 1]
         ELSE [made EXCEPT !.status = "raised", !.raised = "TimeoutError"]
    ELSE [made EXCEPT !.status = "raised", !.raised = o]

\* for attempt in range(self.retry_count) after an attempt that neither
\* returned nor raised: the next attempt, or the end of the loop
LoopEnd(c) ==
    IF c.status = "trying" /\ c.attempt >= retry_count
    THEN [c EXCEPT !.status = "raised", !.raised = "RuntimeError"]
    ELSE c

\* the threads that call the MetricsCollector
Threads == {"t1", "t2"}

\* the workflow ids the callers use
WorkflowIds == {"w"}

\* the names under which the workflow methods and the callers record
MetricNames ==
    {"workflows_started", "steps_completed", "tokens_per_step", "steps_failed",
     "errors", "workflows_completed", "workflow_duration", "n"}

\* a thread that is in no method of the collector
NoCall ==
    [pc |-> "idle", op |-> None, workflow_id |-> None, nested |-> FALSE,
     todo |-> <<>>]

\* MetricsCollector(): no metric, no workflow, the lock free; no thread has
\* called it
NoCollector ==
    [lock |-> "free",
     metrics |-> [n \in MetricNames |-> 0],
     workflows |-> [w \in WorkflowIds |->
                       [tracked |-> FALSE, completed_steps |-> 0,
                        failed_steps |-> 0, status |-> None]],
     threads |-> [t \in Threads |-> NoCall],
     calls |-> 0]

\* self._thread = None; the threads are numbered from 1
\* PerformanceMonitor(): not running, no thread, no sample.  threads holds
\* the position of every _sample_loop thread ever started, caller the
\* position of the thread that calls start and stop; stopped and late
\* record that stop_background_sampling has returned with no start since,
\* and the samples appended while that was so
NoThread == 0

NoMonitor ==
    [_running |-> FALSE, _thread |-> NoThread, samples |-> 0, threads |-> <<>>,
     caller |-> "idle", calls |-> 0, stopped |-> FALSE, late |-> 0]

\* the response to the callNo-th request (from 0) of the step with index stepIdx
Response(scr, stepIdx, callNo) == scr[((stepIdx + callNo) % Len(scr)) + 1]

----------------------------------------------------------------------------
(* StepContext, PipelineHooks and the prompts.                             *)

StepContext(n, d, sp, prev) ==
    [step_number |-> n, step_description |-> d, spec |-> sp,
     previous_output |-> prev, draft |-> <<>>, corrected |-> <<>>,
     secured |-> <<>>]

NoContext == StepContext(0, <<>>, <<>>, <<>>)

HookNames == {"post_draft", "post_correction", "post_security"}

\* the callables of the caller: each appends its own mark to the text
HookFn(name, text) ==
    IF name = "post_draft" THEN text \o <<"D">>
    ELSE IF name = "post_correction" THEN text \o <<"C">>
    ELSE text \o <<"S">>

NoRaw == [draft |-> <<>>, corrected |-> <<>>, secured |-> <<>>]

Prompt(kind, c, text) ==
    [kind |-> kind, previous_output |-> c.previous_output,
     spec |-> IF kind = "creative" THEN c.spec ELSE <<>>,
     step_description |-> IF kind = "creative" THEN c.step_description ELSE <<>>,
     text |-> text]

_build_creative_prompt(c) == Prompt("creative", c, <<>>)
_build_correction_prompt(c, cur) == Prompt("correction", c, cur)
_build_security_prompt(c, cur) == Prompt("security", c, cur)

\* the OllamaRequest handed to client.query, with what query did with it
Request(model, temp, prompt, outcome, response) ==
    [model |-> model, temperature |-> temp, prompt |-> prompt,
     ok |-> outcome.ok, response |-> IF outcome.ok THEN response ELSE <<>>]

----------------------------------------------------------------------------
(* ModelPipeline.process, one generation request at a time.  A pipeline    *)
(* position is the record of the locals of process and its stage methods.  *)

Pipe == [pc |-> pc, ctx |-> ctx, current |-> current, iter |-> iter,
         raw |-> raw, hookLog |-> hookLog]

\* StageReturns with the result of the hook dropped
StageReturnsHookDropped(P, slot, hook, text) ==
    [P EXCEPT !.raw[slot] = text,
              !.ctx[slot] = text,
              !.hookLog = IF hook \in hooks
                          THEN Append(@, [hook |-> hook, arg |-> text])
                          ELSE @]

\* context.<slot> = <stage method>(context); if hook: context.<slot> = hook(context.<slot>)
StageReturns(P, slot, hook, text) ==
    [P EXCEPT !.raw[slot] = text,
              !.ctx[slot] = IF hook \in hooks THEN HookFn(hook, text) ELSE text,
              !.hookLog = IF hook \in hooks
                          THEN Append(@, [hook |-> hook, arg |-> text])
                          ELSE @]

\* process returns context.secured to run
SecurityReturns(P, text) ==
    [StageReturns(P, "secured", "post_security", text) EXCEPT !.pc = "append"]

\* SecurityStarts with current = context.draft
SecurityStartsFromDraft(P) ==
    LET Q == [P EXCEPT !.current = P.ctx.draft, !.iter = 0] IN
    IF max_iterations > 0 THEN [Q EXCEPT !.pc = "harden"]
    ELSE SecurityReturns(Q, Q.current)

\* _security_hardening starts: current = context.corrected, then the for loop
SecurityStarts(P) ==
    LET Q == [P EXCEPT !.current = P.ctx.corrected, !.iter = 0] IN
    IF max_iterations > 0 THEN [Q EXCEPT !.pc = "harden"]
    ELSE SecurityReturns(Q, Q.current)

CorrectionReturns(P, text) ==
    SecurityStarts(StageReturns(P, "corrected", "post_correction", text))

\* CorrectionStarts with a loop that makes its first pass in any case
CorrectionStartsOnePass(P) ==
    LET Q == [P EXCEPT !.current = P.ctx.draft, !.iter = 0] IN
    [Q EXCEPT !.pc = "refine"]

\* _error_correction starts: current = context.draft, then the for loop
CorrectionStarts(P) ==
    LET Q == [P EXCEPT !.current = P.ctx.draft, !.iter = 0] IN
    IF max_iterations > 0 THEN [Q EXCEPT !.pc = "refine"]
    ELSE CorrectionReturns(Q, Q.current)

DraftReturns(P, text) ==
    CorrectionStarts(StageReturns(P, "draft", "post_draft", text))

\* Converged that never holds
ConvergedNever(new_output, cur) == FALSE

\* the convergence check: new_output == current
Converged(new_output, cur) == new_output = cur

\* LoopPass with one pass more than max_iterations
LoopPassOneMore(cur, it, new_output) ==
    IF Converged(new_output, cur) THEN [exit |-> TRUE, current |-> cur, iter |-> it]
    ELSE [exit |-> it + 1 > max_iterations, current |-> new_output, iter |-> it + 1]

\* One pass of the for loop after query returned new_output: break on
\* convergence, otherwise current = new_output and the loop goes on while
\* passes are left.
LoopPass(cur, it, new_output) ==
    IF Converged(new_output, cur) THEN [exit |-> TRUE, current |-> cur, iter |-> it]
    ELSE [exit |-> it + 1 >= max_iterations, current |-> new_output, iter |-> it + 1]

\* Propagate with the exception swallowed and the request made again
PropagateRetry(e) ==
    /\ pc' = pc
    /\ err' = err

\* an exception of client.query leaves process and run: nothing catches it
Propagate(e) ==
    /\ pc' = "error"
    /\ err' = e

SetPipe(P) ==
    /\ pc' = P.pc
    /\ ctx' = P.ctx
    /\ current' = P.current
    /\ iter' = P.iter
    /\ raw' = P.raw
    /\ hookLog' = P.hookLog

NextResponse == Response(script, ctx.step_number - 1, Len(calls))

\* _creative_draft and what process does until the next request
CreativeDraft ==
    /\ pc = "draft"
    /\ \E o \in QueryOutcomes :
        /\ calls' = Append(calls, Request("model_a", "temp_creative",
                                          _build_creative_prompt(ctx), o, NextResponse))
        /\ requests' = requests + 1
        /\ IF o.ok
           THEN /\ SetPipe(DraftReturns(Pipe, NextResponse))
                /\ UNCHANGED <<err, clientFailure>>
           ELSE /\ clientFailure' = o.err
                /\ Propagate(o.err)
                /\ UNCHANGED <<ctx, current, iter, raw, hookLog>>
    /\ UNCHANGED <<guide, script, max_iterations, hooks, fs, output_file, runs,
                   checkpoint_file, resume_from, state, steps, i, saves, ckObj,
                   loaded, checkpoint, result>>
    /\ UNCHANGED <<spec_content, guide_file, chain, proc, settings,
                   guide_text, client, collector, monitor, engine_outputs>>

\* one pass of the loop of _error_correction
CorrectionPass ==
    /\ pc = "refine"
    /\ \E o \in QueryOutcomes :
        /\ calls' = Append(calls, Request("model_b", "temp_analytical",
                                          _build_correction_prompt(ctx, current),
                                          o, NextResponse))
        /\ requests' = requests + 1
        /\ IF o.ok
           THEN /\ LET l == LoopPass(current, iter, NextResponse)
                       Q == [Pipe EXCEPT !.current = l.current, !.iter = l.iter]
                   IN SetPipe(IF l.exit THEN CorrectionReturns(Q, l.current) ELSE Q)
                /\ UNCHANGED <<err, clientFailure>>
           ELSE /\ clientFailure' = o.err
                /\ Propagate(o.err)
                /\ UNCHANGED <<ctx, current, iter, raw, hookLog>>
    /\ UNCHANGED <<guide, script, max_iterations, hooks, fs, output_file, runs,
                   checkpoint_file, resume_from, state, steps, i, saves, ckObj,
                   loaded, checkpoint, result>>
    /\ UNCHANGED <<spec_content, guide_file, chain, proc, settings,
                   guide_text, client, collector, monitor, engine_outputs>>

\* one pass of the loop of _security_hardening
SecurityPass ==
    /\ pc = "harden"
    /\ \E o \in QueryOutcomes :
        /\ calls' = Append(calls, Request("model_c", "temp_adversarial",
                                          _build_security_prompt(ctx, current),
                                          o, NextResponse))
        /\ requests' = requests + 1
        /\ IF o.ok
           THEN /\ LET l == LoopPass(current, iter, NextResponse)
                       Q == [Pipe EXCEPT !.current = l.current, !.iter = l.iter]
                   IN SetPipe(IF l.exit THEN SecurityReturns(Q, l.current) ELSE Q)
                /\ UNCHANGED <<err, clientFailure>>
           ELSE /\ clientFailure' = o.err
                /\ Propagate(o.err)
                /\ UNCHANGED <<ctx, current, iter, raw, hookLog>>
    /\ UNCHANGED <<guide, script, max_iterations, hooks, fs, output_file, runs,
                   checkpoint_file, resume_from, state, steps, i, saves, ckObj,
                   loaded, checkpoint, result>>
    /\ UNCHANGED <<spec_content, guide_file, chain, proc, settings,
                   guide_text, client, collector, monitor, engine_outputs>>

----------------------------------------------------------------------------
(* WorkflowEngine: __init__, run, _save_checkpoint.                        *)

GuidePath == <<"g">>          \* run's guide_file argument
SpecText == <<"s">>           \* run's spec argument, not the name of a file
NoResult == <<"no result">>

\* no chain is run, main has not returned
NoChain ==
    [active |-> FALSE, spec |-> <<>>, guide_files |-> <<>>,
     checkpoint_dir |-> None, idx |-> 0, enhanced_spec |-> <<>>,
     cumulative_context |-> <<>>, outputs |-> <<>>, returned |-> FALSE,
     chain_output |-> <<>>]
NoMessage == [prefix |-> "", kind |-> None, path |-> <<>>, available |-> {}]
NoProc ==
    [ended |-> FALSE, code |-> 0, message |-> NoMessage, report |-> <<>>,
     raised |-> None, mode |-> "none", dry_run |-> FALSE, dry |-> <<>>]

\* datetime.now().isoformat(); the clock of the model is the number of the run
Now == <<"T">> \o NatStr(runs)

Running == {"draft", "refine", "harden", "append", "save_open", "save_dump",
            "write_output"}

\* LoopAt with a StepContext that is not given the accumulated context
LoopAtNoContext(k, stps, sp, st) ==
    IF k < Len(stps)
    THEN [pc |-> "draft", i |-> k,
          ctx |-> StepContext(k + 1, stps[k + 1], sp, <<>>)]
    ELSE [pc |-> "write_output", i |-> k, ctx |-> NoContext]

\* the for loop of run reaches index k: the next StepContext, or the loop ends
LoopAt(k, stps, sp, st) ==
    IF k < Len(stps)
    THEN [pc |-> "draft", i |-> k,
          ctx |-> StepContext(k + 1, stps[k + 1], sp, get_context(st))]
    ELSE [pc |-> "write_output", i |-> k, ctx |-> NoContext]

SetLoop(L) ==
    /\ pc' = L.pc
    /\ i' = L.i
    /\ ctx' = L.ctx
    /\ current' = <<>>
    /\ iter' = 0
    /\ calls' = <<>>
    /\ raw' = NoRaw
    /\ hookLog' = <<>>

\* Restore without the restore of cumulative_output
RestoreNoOutput(ck) ==
    [cumulative_output |-> <<>>,
     step_outputs |-> ck.step_outputs,
     current_step_index |-> ck.completed_steps]

\* Restore without the restore of current_step_index
RestoreNoIndex(ck) ==
    [cumulative_output |-> ck.cumulative_output,
     step_outputs |-> ck.step_outputs,
     current_step_index |-> 0]

\* self.step_outputs.append(output) as the Checkpoint object sees it from
\* which run restored the state: run assigns checkpoint.step_outputs, the
\* list itself, to self.state.step_outputs, so both name one list
SharedAppend(ck, output) ==
    IF ck = NoCheckpoint THEN ck
    ELSE [ck EXCEPT !.step_outputs = Append(@, output)]

\* the state run restores from a loaded checkpoint
Restore(ck) ==
    [cumulative_output |-> ck.cumulative_output,
     step_outputs |-> ck.step_outputs,
     current_step_index |-> ck.completed_steps]

\* start_step that ignores the checkpoint
start_step_Zero(resumed, ck) == 0

\* start_step = 0, or checkpoint.completed_steps when a checkpoint was loaded
start_step(resumed, ck) == IF resumed THEN ck.completed_steps ELSE 0

\* the files that a specification argument may name, with their contents
SpecPath == <<"s.txt">>       \* a spec argument that names a readable file
SpecFileText == <<"f">>       \* the contents of that file

\* spec_content = spec, or the contents of the file when os.path.isfile(spec)
ResolveSpec(spec) == IF spec = SpecPath THEN SpecFileText ELSE spec

\* Paths of guide files.  A path is a text whose first character may be a
\* directory ("d/"); the suffix ".txt" is one character.
HGuidePath == <<"d/", "h", "_guide", ".txt">>     \* a guide file in the directory d
MissingPath == <<"d/", "m", ".txt">>              \* no file has this path
ChainGuidePaths == {GuidePath, HGuidePath, MissingPath}

\* os.path.basename and os.path.dirname
Basename(path) == IF path # <<>> /\ path[1] = "d/" THEN Tail(path) ELSE path
Dirname(path) == IF path # <<>> /\ path[1] = "d/" THEN <<"d/">> ELSE <<>>

\* name.replace(".txt", "")
DropTxt(name) == SelectSeq(name, LAMBDA c : c # ".txt")

\* name.endswith("_guide.txt")
EndsWithGuideTxt(name) ==
    Len(name) >= 2 /\ SubSeq(name, Len(name) - 1, Len(name)) = <<"_guide", ".txt">>

\* engine_config.output_file of the engine GuideChain.run makes for the
\* guide of index idx
OutputName(idx, gf) ==
    <<"output_">> \o NatStr(idx) \o <<"_">> \o DropTxt(Basename(gf)) \o <<".txt">>

OutputNames == {OutputName(idx, gf) : idx \in 0..(MaxChain - 1), gf \in ChainGuidePaths}

NoOutputs == [n \in OutputNames |-> NoFile]

\* the condition of the resume without the test that the file exists
ResumeGivenNoExists(fsys, rf) == rf # None

\* resume_from and os.path.exists(resume_from)
ResumeGiven(fsys, rf) == rf # None /\ fsys[rf] # NoFile

\* run(spec, gf, resume_from) on an engine whose state is st0 and whose
\* checkpoint_file is cf, where doc is the content of the guide file gf:
\* everything run does up to its first generation request.  run assigns
\* self.state only when it restores a checkpoint.
RunCallOn(doc, gf, spec, st0, cf, rf) ==
    LET g == GuideLoad(doc)
        sp == ResolveSpec(spec)
        resume == ResumeGiven(fs, rf)
        ld == IF resume THEN CheckpointLoad(fs, rf) ELSE Loaded(NoCheckpoint)
        st == IF resume /\ ld.ok THEN Restore(ld.ck) ELSE st0
        start == start_step(resume /\ ld.ok, ld.ck)
    IN
    /\ checkpoint_file' = cf
    /\ resume_from' = rf
    /\ guide_file' = gf
    /\ spec_content' = sp
    /\ runs' = runs + 1
    /\ requests' = 0
    /\ saves' = 0
    /\ clientFailure' = None
    /\ result' = NoResult
    /\ ckObj' = NoCheckpoint
    /\ IF ~g.ok
       THEN /\ Propagate(g.err)
            /\ state' = st0
            /\ steps' = <<>>
            /\ loaded' = Loaded(NoCheckpoint)
            /\ checkpoint' = NoCheckpoint
            /\ i' = 0 /\ ctx' = NoContext /\ current' = <<>> /\ iter' = 0
            /\ calls' = <<>> /\ raw' = NoRaw /\ hookLog' = <<>>
       ELSE IF ~ld.ok
       THEN /\ Propagate(ld.err)
            /\ state' = st0
            /\ steps' = g.steps
            /\ loaded' = ld
            /\ checkpoint' = ld.ck
            /\ i' = 0 /\ ctx' = NoContext /\ current' = <<>> /\ iter' = 0
            /\ calls' = <<>> /\ raw' = NoRaw /\ hookLog' = <<>>
       ELSE /\ err' = None
            /\ state' = st
            /\ steps' = g.steps
            /\ loaded' = ld
            /\ checkpoint' = ld.ck
            /\ SetLoop(LoopAt(start, g.steps, sp, st))

\* run(spec, guide_file, resume_from) over the guide, with a specification
\* that is not the name of a file
RunCall(st0, cf, rf) == RunCallOn(guide, GuidePath, SpecText, st0, cf, rf)

\* A new WorkflowEngine is constructed and run(spec, guide_file, resume_from)
\* is called on it (as main and GuideChain.run do).
StartRun ==
    /\ pc = "idle"
    /\ runs < MaxRuns
    /\ \E cf \in {None} \cup Paths, rf \in {None} \cup Paths :
           RunCall(StateManager, cf, rf)
    /\ UNCHANGED <<guide, script, max_iterations, hooks, fs, output_file>>
    /\ UNCHANGED <<chain, proc, settings, guide_text, client, collector, monitor, engine_outputs>>

\* run is called again on the engine of a run that has returned or raised
RunAgain ==
    /\ pc \in {"done", "error"}
    /\ runs < MaxRuns
    /\ \E rf \in {None} \cup Paths : RunCall(state, checkpoint_file, rf)
    /\ UNCHANGED <<guide, script, max_iterations, hooks, fs, output_file>>
    /\ UNCHANGED <<chain, proc, settings, guide_text, client, collector, monitor, engine_outputs>>

\* self.state.add_step_output(step_output), and the Checkpoint object that
\* _save_checkpoint builds when a checkpoint file is configured
AppendStep ==
    /\ pc = "append"
    /\ LET st == add_step_output(state, ctx.secured) IN
        /\ state' = st
        /\ IF checkpoint_file # None
           THEN /\ ckObj' = Checkpoint(guide_file, spec_content, st.current_step_index,
                                       st.cumulative_output, st.step_outputs, Now)
                /\ pc' = "save_open"
                /\ UNCHANGED <<i, ctx, current, iter, calls, raw, hookLog>>
           ELSE /\ SetLoop(LoopAt(i + 1, steps, spec_content, st))
                /\ UNCHANGED ckObj
    /\ UNCHANGED <<guide, script, max_iterations, hooks, fs, output_file, runs,
                   checkpoint_file, resume_from, steps, requests, err,
                   clientFailure, saves, loaded, result>>
    /\ checkpoint' = SharedAppend(checkpoint, ctx.secured)
    /\ UNCHANGED <<spec_content, guide_file, chain, proc, settings,
                   guide_text, client, collector, monitor, engine_outputs>>

\* Checkpoint.save: open(path, "w")
SaveOpen ==
    /\ pc = "save_open"
    /\ fs' = FileOpenW(fs, checkpoint_file)
    /\ pc' = "save_dump"
    /\ UNCHANGED <<guide, script, max_iterations, hooks, output_file, runs,
                   checkpoint_file, resume_from, state, steps, i, ctx, current,
                   iter, calls, requests, raw, hookLog, err, clientFailure,
                   saves, ckObj, loaded, checkpoint, result>>
    /\ UNCHANGED <<spec_content, guide_file, chain, proc, settings,
                   guide_text, client, collector, monitor, engine_outputs>>

\* Checkpoint.save: json.dump and the close of the file; then the loop goes on
SaveDump ==
    /\ pc = "save_dump"
    /\ fs' = CheckpointDump(fs, ckObj, checkpoint_file)
    /\ saves' = saves + 1
    /\ SetLoop(LoopAt(i + 1, steps, spec_content, state))
    /\ UNCHANGED <<guide, script, max_iterations, hooks, output_file, runs,
                   checkpoint_file, resume_from, state, steps, requests, err,
                   clientFailure, ckObj, loaded, checkpoint, result>>
    /\ UNCHANGED <<spec_content, guide_file, chain, proc, settings,
                   guide_text, client, collector, monitor, engine_outputs>>

\* WriteOutput without the write of the output file
WriteOutputReturnOnly ==
    /\ pc = "write_output"
    /\ result' = state.cumulative_output
    /\ pc' = "done"
    /\ UNCHANGED <<guide, script, max_iterations, hooks, fs, output_file, runs,
                   checkpoint_file, resume_from, state, steps, i, ctx, current,
                   iter, calls, requests, raw, hookLog, err, clientFailure,
                   saves, ckObj, loaded, checkpoint>>
    /\ UNCHANGED <<spec_content, guide_file, chain, proc, settings,
                   guide_text, client, collector, monitor, engine_outputs>>

\* the output file of the engine's Config is written and run returns; the
\* Config of an engine of a chain names a file of its own
WriteOutput ==
    /\ pc = "write_output"
    /\ IF chain.active
       THEN /\ engine_outputs' =
                   [engine_outputs EXCEPT ![OutputName(chain.idx, guide_file)] =
                        state.cumulative_output]
            /\ UNCHANGED output_file
       ELSE /\ output_file' = state.cumulative_output
            /\ UNCHANGED engine_outputs
    /\ result' = state.cumulative_output
    /\ pc' = "done"
    /\ UNCHANGED <<guide, script, max_iterations, hooks, fs, runs,
                   checkpoint_file, resume_from, state, steps, i, ctx, current,
                   iter, calls, requests, raw, hookLog, err, clientFailure,
                   saves, ckObj, loaded, checkpoint>>
    /\ UNCHANGED <<spec_content, guide_file, chain, proc, settings, guide_text, client, collector, monitor>>

\* The enclosing process is terminated: its memory is gone, the files stay.
\* During json.dump any part of the text may have reached the file: none
\* of it, or half of it.
Kill ==
    /\ pc \in Running
    /\ pc' = "killed"
    /\ IF pc = "save_dump"
       THEN \E n \in {0, Len(JsonEncode(ToDict(ckObj))) \div 2} :
                fs' = FileWrite(fs, checkpoint_file,
                                SubSeq(JsonEncode(ToDict(ckObj)), 1, n))
       ELSE UNCHANGED fs
    /\ state' = StateManager
    /\ steps' = <<>>
    /\ i' = 0 /\ ctx' = NoContext /\ current' = <<>> /\ iter' = 0
    /\ calls' = <<>> /\ raw' = NoRaw /\ hookLog' = <<>>
    /\ ckObj' = NoCheckpoint
    /\ loaded' = Loaded(NoCheckpoint)
    /\ checkpoint' = NoCheckpoint
    /\ UNCHANGED <<guide, script, max_iterations, hooks, output_file, runs,
                   checkpoint_file, resume_from, requests, err, clientFailure,
                   saves, result>>
    /\ spec_content' = <<>>
    /\ guide_file' = <<>>
    /\ UNCHANGED <<chain, proc, settings, guide_text, client, collector, monitor, engine_outputs>>

\* The process that called run ends (main returns, or the process was
\* terminated): the engine and everything else in its memory are gone.
Exit ==
    /\ pc \in {"done", "error", "killed"}
    /\ pc' = "idle"
    /\ checkpoint_file' = None
    /\ resume_from' = None
    /\ state' = StateManager
    /\ steps' = <<>>
    /\ i' = 0 /\ ctx' = NoContext /\ current' = <<>> /\ iter' = 0
    /\ calls' = <<>> /\ raw' = NoRaw /\ hookLog' = <<>>
    /\ requests' = 0
    /\ err' = None
    /\ clientFailure' = None
    /\ saves' = 0
    /\ ckObj' = NoCheckpoint
    /\ loaded' = Loaded(NoCheckpoint)
    /\ checkpoint' = NoCheckpoint
    /\ result' = NoResult
    /\ UNCHANGED <<guide, script, max_iterations, hooks, fs, output_file, runs>>
    /\ spec_content' = <<>>
    /\ guide_file' = <<>>
    /\ UNCHANGED <<chain, proc, settings, guide_text, client, collector, monitor, engine_outputs>>

\* a process that has not called anything yet
Unused ==
    /\ pc = "idle"
    /\ runs = 0
    /\ checkpoint_file = None
    /\ resume_from = None
    /\ state = StateManager
    /\ steps = <<>>
    /\ i = 0
    /\ ctx = NoContext
    /\ current = <<>>
    /\ iter = 0
    /\ calls = <<>>
    /\ requests = 0
    /\ raw = NoRaw
    /\ hookLog = <<>>
    /\ err = None
    /\ clientFailure = None
    /\ saves = 0
    /\ ckObj = NoCheckpoint
    /\ loaded = Loaded(NoCheckpoint)
    /\ checkpoint = NoCheckpoint
    /\ result = NoResult
    /\ spec_content = <<>>
    /\ guide_file = <<>>
    /\ chain = NoChain
    /\ proc = NoProc

----------------------------------------------------------------------------
(* The workflow specification: runs of new engines over one guide, with    *)
(* one fixed script of responses, failures of the client and terminations  *)
(* of the process at any point.                                            *)

\* the guide with the steps 1..n, its lines in descending order after a
\* line that is no step
GuideDoc(n) == <<OtherLine>> \o [k \in 1..n |-> StepLine(n + 1 - k, <<"d", DigitChars[n + 2 - k]>>)]

GuideDocs == {GuideDoc(n) : n \in 0..MaxSteps} \cup {NoGuide}

Scripts == [1..2 -> Responses]

Init ==
    /\ guide \in GuideDocs
    /\ script \in Scripts
    /\ max_iterations \in 1..MaxIter
    /\ hooks \in {{}, HookNames}
    /\ fs = [p \in Paths |-> NoFile]
    /\ output_file = NoFile
    /\ pc = "idle"
    /\ runs = 0
    /\ checkpoint_file = None
    /\ resume_from = None
    /\ state = StateManager
    /\ steps = <<>>
    /\ i = 0
    /\ ctx = NoContext
    /\ current = <<>>
    /\ iter = 0
    /\ calls = <<>>
    /\ requests = 0
    /\ raw = NoRaw
    /\ hookLog = <<>>
    /\ err = None
    /\ clientFailure = None
    /\ saves = 0
    /\ ckObj = NoCheckpoint
    /\ loaded = Loaded(NoCheckpoint)
    /\ checkpoint = NoCheckpoint
    /\ result = NoResult
    /\ spec_content = <<>>
    /\ guide_file = <<>>
    /\ chain = NoChain
    /\ proc = NoProc
    /\ settings = NoSettings
    /\ guide_text = <<>>
    /\ client = NoClient
    /\ collector = NoCollector
    /\ monitor = NoMonitor
    /\ engine_outputs = NoOutputs

Next ==
    \/ StartRun
    \/ CreativeDraft
    \/ CorrectionPass
    \/ SecurityPass
    \/ AppendStep
    \/ SaveOpen
    \/ SaveDump
    \/ WriteOutput
    \/ Kill
    \/ Exit

Spec == Init /\ [][Next]_vars

----------------------------------------------------------------------------
(* The pipeline specification: one call of ModelPipeline.process, for      *)
(* every script of responses long enough to answer each request of the     *)
(* step on its own, every subset of the hooks and every failure.           *)

PipeScripts == [1..(1 + 2 * MaxIter) -> Responses]

InitPipe ==
    /\ guide = GuideDoc(1)
    /\ script \in PipeScripts
    /\ max_iterations \in 1..MaxIter
    /\ hooks \in SUBSET HookNames
    /\ fs = [p \in Paths |-> NoFile]
    /\ output_file = NoFile
    /\ pc = "draft"
    /\ runs = 1
    /\ checkpoint_file = None
    /\ resume_from = None
    /\ state = StateManager
    /\ steps = GuideLoad(GuideDoc(1)).steps
    /\ i = 0
    /\ ctx = LoopAt(0, steps, SpecText, state).ctx
    /\ current = <<>>
    /\ iter = 0
    /\ calls = <<>>
    /\ requests = 0
    /\ raw = NoRaw
    /\ hookLog = <<>>
    /\ err = None
    /\ clientFailure = None
    /\ saves = 0
    /\ ckObj = NoCheckpoint
    /\ loaded = Loaded(NoCheckpoint)
    /\ checkpoint = NoCheckpoint
    /\ result = NoResult
    /\ spec_content = SpecText
    /\ guide_file = GuidePath
    /\ chain = NoChain
    /\ proc = NoProc
    /\ settings = NoSettings
    /\ guide_text = <<>>
    /\ client = NoClient
    /\ collector = NoCollector
    /\ monitor = NoMonitor
    /\ engine_outputs = NoOutputs

NextPipe ==
    \/ CreativeDraft
    \/ CorrectionPass
    \/ SecurityPass

SpecPipe == InitPipe /\ [][NextPipe]_vars

\* one call of process with a Config whose max_iterations is -1, 0 or 1:
\* Config does not check the value
InitPipeLow ==
    /\ guide = GuideDoc(1)
    /\ script \in PipeScripts
    /\ max_iterations \in (0 - 1)..1
    /\ hooks \in SUBSET HookNames
    /\ fs = [p \in Paths |-> NoFile]
    /\ output_file = NoFile
    /\ pc = "draft"
    /\ runs = 1
    /\ checkpoint_file = None
    /\ resume_from = None
    /\ state = StateManager
    /\ steps = GuideLoad(GuideDoc(1)).steps
    /\ i = 0
    /\ ctx = LoopAt(0, steps, SpecText, state).ctx
    /\ current = <<>>
    /\ iter = 0
    /\ calls = <<>>
    /\ requests = 0
    /\ raw = NoRaw
    /\ hookLog = <<>>
    /\ err = None
    /\ clientFailure = None
    /\ saves = 0
    /\ ckObj = NoCheckpoint
    /\ loaded = Loaded(NoCheckpoint)
    /\ checkpoint = NoCheckpoint
    /\ result = NoResult
    /\ spec_content = SpecText
    /\ guide_file = GuidePath
    /\ chain = NoChain
    /\ proc = NoProc
    /\ settings = NoSettings
    /\ guide_text = <<>>
    /\ client = NoClient
    /\ collector = NoCollector
    /\ monitor = NoMonitor
    /\ engine_outputs = NoOutputs

SpecPipeLow == InitPipeLow /\ [][NextPipe]_vars

----------------------------------------------------------------------------
(* The library specification: one engine whose run method is called again  *)
(* after it returned or raised, with checkpoint files that a caller of      *)
(* Checkpoint.save may have written before (Checkpoint is a public          *)
(* dataclass without validation).                                           *)

\* the checkpoint a run over a guide with n steps at the path g leaves
LongerRun(g, n) ==
    Checkpoint(g, SpecText, n,
               Flatten([k \in 1..n |-> Formatted(k - 1, <<"a">>)]),
               [k \in 1..n |-> <<"a">>], <<"T">>)

\* Checkpoints a caller saved: the one of test_resume_from_checkpoint (a
\* context that is free text), one with a count that is not the length of
\* its list (as test_random_checkpoint_data draws them), one as a run
\* over the guide writes it after its first step, and one that a run over
\* another guide, with more steps than any guide here, has left.
SeedCheckpoints ==
    {Checkpoint(GuidePath, SpecText, 1, <<"p">>, <<<<"a">>>>, <<"T">>),
     Checkpoint(GuidePath, SpecText, 1, <<>>, <<>>, <<"T">>),
     LongerRun(GuidePath, 1),
     LongerRun(<<"h">>, MaxSteps + 1)}

SeedFiles == {CheckpointSave([p \in Paths |-> NoFile], c, q)[q] :
                  c \in SeedCheckpoints, q \in Paths}

InitLibOver(budgets) ==
    /\ guide \in GuideDocs
    /\ script \in Scripts
    /\ max_iterations \in budgets
    /\ hooks = {}
    /\ fs \in [Paths -> {NoFile} \cup SeedFiles]
    /\ output_file = NoFile
    /\ pc = "idle"
    /\ runs = 0
    /\ checkpoint_file = None
    /\ resume_from = None
    /\ state = StateManager
    /\ steps = <<>>
    /\ i = 0
    /\ ctx = NoContext
    /\ current = <<>>
    /\ iter = 0
    /\ calls = <<>>
    /\ requests = 0
    /\ raw = NoRaw
    /\ hookLog = <<>>
    /\ err = None
    /\ clientFailure = None
    /\ saves = 0
    /\ ckObj = NoCheckpoint
    /\ loaded = Loaded(NoCheckpoint)
    /\ checkpoint = NoCheckpoint
    /\ result = NoResult
    /\ spec_content = <<>>
    /\ guide_file = <<>>
    /\ chain = NoChain
    /\ proc = NoProc
    /\ settings = NoSettings
    /\ guide_text = <<>>
    /\ client = NoClient
    /\ collector = NoCollector
    /\ monitor = NoMonitor
    /\ engine_outputs = NoOutputs

InitLib == InitLibOver(1..MaxIter)

NextLib ==
    \/ StartRun
    \/ RunAgain
    \/ CreativeDraft
    \/ CorrectionPass
    \/ SecurityPass
    \/ AppendStep
    \/ SaveOpen
    \/ SaveDump
    \/ WriteOutput

SpecLib == InitLib /\ [][NextLib]_vars

----------------------------------------------------------------------------
(* One run of a new engine with the scheduling of the code: run is         *)
(* sequential, each statement is executed once the one before it has       *)
(* completed, and every generation request returns or fails.  The process  *)
(* is not terminated from outside.  The checkpoint storage may hold a      *)
(* checkpoint before the run, so that it starts at an index s > 0.         *)

RunStep ==
    \/ CreativeDraft
    \/ CorrectionPass
    \/ SecurityPass
    \/ AppendStep
    \/ SaveOpen
    \/ SaveDump
    \/ WriteOutput

NextLive ==
    \/ StartRun
    \/ RunStep

SpecLive == InitLib /\ [][NextLive]_vars /\ WF_vars(RunStep)

\* the same runs, with the values of max_iterations that leave the loops
\* of the iterative stages without a pass
InitLiveLow == InitLibOver((0 - 1)..MaxIter)

SpecLiveLow == InitLiveLow /\ [][NextLive]_vars /\ WF_vars(RunStep)

----------------------------------------------------------------------------
(* GuideChain: run and dry_run, and WorkflowEngine.dry_run.                 *)

PrevHdr == "Previous context:\n"       \* literals of the f-string of enhanced_spec
CurHdr == "\n\nCurrent spec:\n"
OutHdrA == "\n\n--- Output from "      \* literals of the f-string of cumulative_context
OutHdrB == " ---\n"

PreviewWidth == 60            \* step[:60] in GuideChain.dry_run

\* the guide file at HGuidePath
HGuide == <<StepLine(1, <<"h">>)>>

\* the content of the guide file at a path
GuideAt(path) ==
    IF path = GuidePath THEN guide
    ELSE IF path = HGuidePath THEN HGuide
    ELSE NoGuide

ChainLists == UNION {[1..n -> {GuidePath, HGuidePath}] : n \in 1..MaxChain}

CheckpointDir == "ckdir"

\* os.path.join(checkpoint_dir, f"checkpoint_{idx}_{basename}.json"): the
\* names of the checkpoint files of a chain, which differ in idx
ChainCheckpointNames ==
    <<"ckdir/checkpoint_0", "ckdir/checkpoint_1", "ckdir/checkpoint_2",
      "ckdir/checkpoint_3">>

ChainPaths == {ChainCheckpointNames[k] : k \in 1..MaxChain}

ChainCheckpointFile(dir, idx) ==
    IF dir = None THEN None ELSE ChainCheckpointNames[idx + 1]

\* EnhancedSpec that leaves the accumulated context out
EnhancedSpecNoContext(spec, cumulative_context) == spec

\* enhanced_spec: spec, after the accumulated context when there is one
EnhancedSpec(spec, cumulative_context) ==
    IF cumulative_context # <<>>
    THEN <<PrevHdr>> \o cumulative_context \o <<CurHdr>> \o spec
    ELSE spec

\* Accumulate that replaces the context by the section of the last guide
AccumulateReplacing(c, gf, output) ==
    [c EXCEPT !.cumulative_context = <<OutHdrA>> \o gf \o <<OutHdrB>> \o output,
              !.outputs = Append(@, output)]

\* cumulative_context += f"\n\n--- Output from {guide_file} ---\n{output}"
Accumulate(c, gf, output) ==
    [c EXCEPT !.cumulative_context = @ \o <<OutHdrA>> \o gf \o <<OutHdrB>> \o output,
              !.outputs = Append(@, output)]

\* the body of the loop of GuideChain.run for the guide of index k, up to
\* ChainIteration that gives the checkpoint file to run as resume_from
ChainIterationResuming(c, k) ==
    LET gf == c.guide_files[k + 1]
        es == EnhancedSpec(c.spec, c.cumulative_context)
    IN /\ chain' = [c EXCEPT !.idx = k, !.enhanced_spec = es]
       /\ RunCallOn(GuideAt(gf), gf, es, StateManager,
                    ChainCheckpointFile(c.checkpoint_dir, k),
                    ChainCheckpointFile(c.checkpoint_dir, k))

\* the body of the loop over the guides of GuideChain.run, up to and with
\* the first generation request of engine.run: the checkpoint file, the
\* engine's Config, a new engine, the enhanced specification and the call
\* of run without a checkpoint to resume from
ChainIteration(c, k) ==
    LET gf == c.guide_files[k + 1]
        es == EnhancedSpec(c.spec, c.cumulative_context)
    IN /\ chain' = [c EXCEPT !.idx = k, !.enhanced_spec = es]
       /\ RunCallOn(GuideAt(gf), gf, es, StateManager,
                    ChainCheckpointFile(c.checkpoint_dir, k), None)

\* GuideChain(config, hooks, checkpoint_dir).run(spec, guide_files)
GuideChainRun ==
    /\ pc = "idle"
    /\ ~chain.active /\ ~chain.returned
    /\ \E sp \in {SpecText, SpecPath}, gfs \in ChainLists,
          dir \in {None, CheckpointDir} :
           ChainIteration([NoChain EXCEPT !.active = TRUE, !.spec = sp,
                                          !.guide_files = gfs,
                                          !.checkpoint_dir = dir], 0)
    /\ UNCHANGED <<guide, script, max_iterations, hooks, fs, output_file,
                   proc, settings, guide_text, client, collector, monitor, engine_outputs>>

\* ChainNextGuide that also writes the top-level output file
ChainNextGuideWriting ==
    /\ chain.active
    /\ pc = "done"
    /\ chain.idx + 1 < Len(chain.guide_files)
    /\ ChainIteration(Accumulate(chain, guide_file, result), chain.idx + 1)
    /\ output_file' = Accumulate(chain, guide_file, result).cumulative_context
    /\ UNCHANGED <<guide, script, max_iterations, hooks, fs,
                   proc, settings, guide_text, client, collector, monitor, engine_outputs>>

\* engine.run returned and another guide follows: its output is added to
\* the context and the loop body runs for the next guide
ChainNextGuide ==
    /\ chain.active
    /\ pc = "done"
    /\ chain.idx + 1 < Len(chain.guide_files)
    /\ ChainIteration(Accumulate(chain, guide_file, result), chain.idx + 1)
    /\ UNCHANGED <<guide, script, max_iterations, hooks, fs, output_file,
                   proc, settings, guide_text, client, collector, monitor, engine_outputs>>

\* engine.run returned for the last guide: its output is added to the
\* context, the context is written to self.config.output_file and returned
ChainFinish ==
    /\ chain.active
    /\ pc = "done"
    /\ chain.idx + 1 = Len(chain.guide_files)
    /\ LET c == Accumulate(chain, guide_file, result) IN
        /\ chain' = [c EXCEPT !.active = FALSE, !.returned = TRUE,
                              !.chain_output = c.cumulative_context]
        /\ output_file' = c.cumulative_context
    /\ UNCHANGED <<guide, script, max_iterations, hooks, fs, pc, runs,
                   checkpoint_file, resume_from, state, steps, i, ctx, current,
                   iter, calls, requests, raw, hookLog, err, clientFailure,
                   saves, ckObj, loaded, checkpoint, result>>
    /\ UNCHANGED <<spec_content, guide_file, proc, settings, guide_text, client, collector, monitor,
                   engine_outputs>>

\* the lines WorkflowEngine.dry_run prints for the steps
DryRunLines(stps) ==
    [k \in 1..Len(stps) |-> <<"Step ">> \o NatStr(k) \o <<": ">> \o stps[k]]

\* step[:60]
Preview(step) ==
    SubSeq(step, 1, IF Len(step) < PreviewWidth THEN Len(step) ELSE PreviewWidth)

\* the lines GuideChain.dry_run prints for the steps of one guide
ChainDryRunLines(stps) ==
    [k \in 1..Len(stps) |->
        <<"Step ">> \o NatStr(k) \o <<": ">> \o Preview(stps[k]) \o <<"...">>]

RECURSIVE ChainDryRunFrom(_, _, _)
\* the loop of GuideChain.dry_run from the guide at position k: what was
\* printed for each guide, and the exception of the first that does not load
ChainDryRunFrom(gfs, k, acc) ==
    IF k > Len(gfs) THEN [report |-> acc, err |-> None, path |-> <<>>]
    ELSE LET g == GuideLoad(GuideAt(gfs[k])) IN
         IF ~g.ok THEN [report |-> acc, err |-> g.err, path |-> gfs[k]]
         ELSE ChainDryRunFrom(gfs, k + 1,
                  Append(acc, [guide_file |-> gfs[k],
                               lines |-> ChainDryRunLines(g.steps)]))

\* what engine.dry_run(gf) prints, and the exception it raises
EngineDryRun(gf) ==
    LET g == GuideLoad(GuideAt(gf)) IN
    IF ~g.ok THEN [report |-> <<>>, err |-> g.err, path |-> gf]
    ELSE [report |-> <<[guide_file |-> gf, lines |-> DryRunLines(g.steps)]>>,
          err |-> None, path |-> <<>>]

\* DryRun that writes the output file as run does
DryRunWritingOutput ==
    /\ pc \in {"idle", "done", "error"}
    /\ proc = NoProc
    /\ LET d == EngineDryRun(GuidePath) IN
           proc' = [NoProc EXCEPT !.mode = "engine", !.dry_run = TRUE,
                                  !.dry = <<GuidePath>>, !.report = d.report,
                                  !.raised = d.err]
    /\ output_file' = state.cumulative_output
    /\ UNCHANGED <<guide, script, max_iterations, hooks, fs, pc,
                   runs, checkpoint_file, resume_from, state, steps, i, ctx,
                   current, iter, calls, requests, raw, hookLog, err,
                   clientFailure, saves, ckObj, loaded, checkpoint, result>>
    /\ UNCHANGED <<spec_content, guide_file, chain, settings, guide_text, client, collector, monitor,
                   engine_outputs>>

\* engine.dry_run(guide_file), on a new engine or on one that has run
DryRun ==
    /\ pc \in {"idle", "done", "error"}
    /\ proc = NoProc
    /\ LET d == EngineDryRun(GuidePath) IN
           proc' = [NoProc EXCEPT !.mode = "engine", !.dry_run = TRUE,
                                  !.dry = <<GuidePath>>, !.report = d.report,
                                  !.raised = d.err]
    /\ UNCHANGED <<guide, script, max_iterations, hooks, fs, output_file, pc,
                   runs, checkpoint_file, resume_from, state, steps, i, ctx,
                   current, iter, calls, requests, raw, hookLog, err,
                   clientFailure, saves, ckObj, loaded, checkpoint, result>>
    /\ UNCHANGED <<spec_content, guide_file, chain, settings, guide_text, client, collector, monitor,
                   engine_outputs>>

\* GuideChain(config).dry_run(guide_files)
ChainDryRun ==
    /\ pc \in {"idle", "done", "error"}
    /\ proc = NoProc
    /\ \E gfs \in ChainLists :
           LET d == ChainDryRunFrom(gfs, 1, <<>>) IN
           proc' = [NoProc EXCEPT !.mode = "chain", !.dry_run = TRUE,
                                  !.dry = gfs, !.report = d.report,
                                  !.raised = d.err]
    /\ UNCHANGED <<guide, script, max_iterations, hooks, fs, output_file, pc,
                   runs, checkpoint_file, resume_from, state, steps, i, ctx,
                   current, iter, calls, requests, raw, hookLog, err,
                   clientFailure, saves, ckObj, loaded, checkpoint, result>>
    /\ UNCHANGED <<spec_content, guide_file, chain, settings, guide_text, client, collector, monitor,
                   engine_outputs>>

----------------------------------------------------------------------------
(* The chain specification: one call of GuideChain.run over every list of  *)
(* up to MaxChain guides, with a specification that is a text or the name  *)
(* of a file, with and without a checkpoint directory, and with the        *)
(* failures of the client.  The checkpoint directory is empty, or holds    *)
(* the checkpoint files an earlier chain over these guides has left.       *)

\* the checkpoint file an earlier chain has left for a guide
ChainSeed == JsonEncode(ToDict(LongerRun(GuidePath, 1)))

InitChain ==
    /\ guide \in GuideDocs
    /\ script \in Scripts
    /\ max_iterations \in 1..2
    /\ hooks = {}
    /\ fs \in {[p \in Paths \cup ChainPaths |-> NoFile],
               [p \in Paths \cup ChainPaths |->
                    IF p \in ChainPaths THEN ChainSeed ELSE NoFile]}
    /\ output_file = NoFile
    /\ engine_outputs = NoOutputs
    /\ settings = NoSettings
    /\ guide_text = <<>>
    /\ client = NoClient
    /\ collector = NoCollector
    /\ monitor = NoMonitor
    /\ Unused

NextChain ==
    \/ GuideChainRun
    \/ RunStep
    \/ ChainNextGuide
    \/ ChainFinish

SpecChain == InitChain /\ [][NextChain]_vars

----------------------------------------------------------------------------
(* The dry validation specification: runs of an engine as in the library   *)
(* specification, and one dry validation, of the engine or of a chain,      *)
(* before a run, after a run returned or after it raised.  One guide has a *)
(* description longer than the preview of the chain's report, one has     *)
(* ordinals that are not contiguous.                                       *)

LongGuide == <<StepLine(1, [k \in 1..(PreviewWidth + 1) |-> "w"])>>

\* a guide file with the lines "Step 1: a" and "Step 3: c"
GapGuide == <<StepLine(1, <<"a">>), StepLine(3, <<"c">>)>>

InitDry ==
    /\ guide \in GuideDocs \cup {LongGuide, GapGuide}
    /\ script \in Scripts
    /\ max_iterations = 1
    /\ hooks = {}
    /\ fs \in [Paths -> {NoFile, JsonEncode(ToDict(LongerRun(GuidePath, 1)))}]
    /\ output_file = NoFile
    /\ engine_outputs = NoOutputs
    /\ settings = NoSettings
    /\ guide_text = <<>>
    /\ client = NoClient
    /\ collector = NoCollector
    /\ monitor = NoMonitor
    /\ Unused

NextDry ==
    \/ StartRun
    \/ RunStep
    \/ DryRun
    \/ ChainDryRun

SpecDry == InitDry /\ [][NextDry]_vars

----------------------------------------------------------------------------
(* main: the command line, the Config, the call of run or dry_run of an    *)
(* engine or a chain, and the except clauses.                              *)

\* os.listdir(directory): the names of the files of a directory.  The
\* working directory holds the guide at GuidePath when it exists, the
\* specification file and the output files written so far; the directory
\* d holds the guide at HGuidePath and a file that is no guide.
ListDir(dir) ==
    IF dir = <<"d/">> THEN {Basename(HGuidePath), <<"notes", ".txt">>}
    ELSE IF dir = <<>>
    THEN (IF guide # NoGuide THEN {GuidePath} ELSE {})
         \cup {SpecPath}
         \cup (IF output_file # NoFile THEN {Config.output_file} ELSE {})
         \cup {n \in OutputNames : engine_outputs[n] # NoFile}
    ELSE {}

\* _list_available_guides that lists every file of the directory
ListAvailableGuidesAll(path) == ListDir(Dirname(path))

\* GuideLoader(path)._list_available_guides()
ListAvailableGuides(path) == {n \in ListDir(Dirname(path)) : EndsWithGuideTxt(n)}

\* what the except clauses of main print for an exception: the prefix of
\* the clause and str(e), which for a guide that was not found names the
\* path and the available guides
Message(kind, path) ==
    [prefix |-> IF kind = "ConnectionError" THEN "Connection Error: "
                ELSE IF kind = "TimeoutError" THEN "Timeout Error: "
                ELSE "Error: ",
     kind |-> kind,
     path |-> IF kind \in {"FileNotFoundError", "ValueError"} THEN path ELSE <<>>,
     available |-> IF kind = "FileNotFoundError" THEN ListAvailableGuides(path)
                   ELSE {}]

\* the exceptions the except clauses of main catch; json.JSONDecodeError
\* is a ValueError
Caught == {"FileNotFoundError", "ValueError", "JSONDecodeError",
           "ConnectionError", "TimeoutError"}

\* how main ends when the call in its try block returned (kind = None) or
\* raised: return 0, a message and return 1, or the exception leaves main
MainOutcome(p, kind, path) ==
    IF kind = None THEN [p EXCEPT !.ended = TRUE, !.code = 0]
    ELSE IF kind \in Caught
    THEN [p EXCEPT !.ended = TRUE, !.code = 1, !.message = Message(kind, path)]
    ELSE [p EXCEPT !.ended = TRUE, !.raised = kind]

\* --config: not given, a settings file, or a path where no file is
ConfigArgs == {None, "config.json", "missing.json"}

\* the settings file: max_iterations and a name that is no field
MainSettingsFile ==
    JsonEncode(JObj(<<JPair(<<"max_iterations">>, JInt(1)),
                      JPair(<<"exec">>, JStr(<<"v">>))>>))

\* the content of the file at a path given with --config
SettingsAt(cfg) == IF cfg = "config.json" THEN MainSettingsFile ELSE NoFile

\* Config.from_json(args.config) if args.config else Config()
CliConfig(cfg) == IF cfg = None THEN ConfigOk(Config) ELSE from_json(SettingsAt(cfg))

MainCalled == pc = "idle" /\ proc = NoProc /\ ~settings.loaded

\* main has made its Config and stands before the try block
Configured == pc = "idle" /\ proc.mode = "configured" /\ ~proc.ended

\* the guide files --guide may name
MainGuides == {GuidePath, MissingPath}

\* checkpoint files an earlier call has left: a valid one, one of which the
\* member timestamp was removed, and one that is not JSON
MainPaths == {"valid.json", "corrupt.json", "broken.json"}

CorruptCheckpoint ==
    JsonEncode(JObj(SubSeq(ToDict(LongerRun(GuidePath, 1)).items, 1, 5)))

MainFiles ==
    [p \in Paths \cup ChainPaths \cup MainPaths |->
        IF p = "valid.json" THEN JsonEncode(ToDict(LongerRun(GuidePath, 1)))
        ELSE IF p = "corrupt.json" THEN CorruptCheckpoint
        ELSE IF p = "broken.json" THEN <<"{">>
        ELSE NoFile]

\* the Config of main is made, the pipeline takes its max_iterations; or
\* Config.from_json raises, and it is called before the try block
MainConfig ==
    /\ MainCalled
    /\ \E cfg \in ConfigArgs :
        LET c == CliConfig(cfg) IN
        /\ settings' = [loaded |-> TRUE, file |-> SettingsAt(cfg), ok |-> c.ok,
                        config |-> c.config, err |-> c.err]
        /\ max_iterations' = IF c.ok THEN c.config.max_iterations
                             ELSE max_iterations
        /\ proc' = IF c.ok THEN [NoProc EXCEPT !.mode = "configured"]
                   ELSE [NoProc EXCEPT !.ended = TRUE, !.raised = c.err]
    /\ UNCHANGED <<guide, script, hooks, fs, output_file, pc, runs,
                   checkpoint_file, resume_from, state, steps, i, ctx, current,
                   iter, calls, requests, raw, hookLog, err, clientFailure,
                   saves, ckObj, loaded, checkpoint, result>>
    /\ UNCHANGED <<spec_content, guide_file, chain, guide_text, client, collector, monitor, engine_outputs>>

\* --dry-run: engine.dry_run(args.guide) or chain.dry_run(args.chain)
MainDryRun ==
    /\ Configured
    /\  \/ \E g \in MainGuides :
                  LET d == EngineDryRun(g) IN
                  proc' = MainOutcome([NoProc EXCEPT !.mode = "engine",
                                          !.dry_run = TRUE, !.dry = <<g>>,
                                          !.report = d.report], d.err, d.path)
         \/ \E gfs \in ChainLists :
                  LET c == ChainDryRunFrom(gfs, 1, <<>>) IN
                  proc' = MainOutcome([NoProc EXCEPT !.mode = "chain",
                                          !.dry_run = TRUE, !.dry = gfs,
                                          !.report = c.report], c.err, c.path)
    /\ UNCHANGED <<guide, script, max_iterations, settings, hooks, fs, output_file, pc, runs,
                   checkpoint_file, resume_from, state, steps, i, ctx, current,
                   iter, calls, requests, raw, hookLog, err, clientFailure,
                   saves, ckObj, loaded, checkpoint, result>>
    /\ UNCHANGED <<spec_content, guide_file, chain, guide_text, client, collector, monitor, engine_outputs>>

\* no --dry-run and no --spec, with --chain or without
MainSpecRequired ==
    /\ Configured
    /\ \E m \in {"engine", "chain"} :
        /\ proc' = [NoProc EXCEPT !.mode = m, !.ended = TRUE, !.code = 1,
                       !.message = [NoMessage EXCEPT !.prefix = "Error: ",
                                                     !.kind = "SpecRequired"]]
    /\ UNCHANGED <<guide, script, max_iterations, settings, hooks, fs, output_file, pc, runs,
                   checkpoint_file, resume_from, state, steps, i, ctx, current,
                   iter, calls, requests, raw, hookLog, err, clientFailure,
                   saves, ckObj, loaded, checkpoint, result>>
    /\ UNCHANGED <<spec_content, guide_file, chain, guide_text, client, collector, monitor, engine_outputs>>

\* WorkflowEngine(config, checkpoint_file=args.checkpoint)
\*     .run(args.spec, args.guide, resume_from=args.resume)
MainRun ==
    /\ Configured
    /\ \E g \in MainGuides,
          cf \in {None} \cup Paths, rf \in {None} \cup Paths \cup MainPaths :
        RunCallOn(GuideAt(g), g, SpecText, StateManager, cf, rf)
    /\ proc' = [NoProc EXCEPT !.mode = "engine"]
    /\ UNCHANGED <<guide, script, max_iterations, settings, hooks, fs, output_file, chain, guide_text, client, collector, monitor,
                   engine_outputs>>

\* GuideChain(config, checkpoint_dir=args.checkpoint_dir)
\*     .run(args.spec, args.chain)
MainChain ==
    /\ Configured
    /\ \E gfs \in ChainLists, dir \in {None, CheckpointDir} :
        ChainIteration([NoChain EXCEPT !.active = TRUE, !.spec = SpecText,
                                          !.guide_files = gfs,
                                          !.checkpoint_dir = dir], 0)
    /\ proc' = [NoProc EXCEPT !.mode = "chain"]
    /\ UNCHANGED <<guide, script, max_iterations, settings, hooks, fs, output_file, guide_text, client, collector, monitor,
                   engine_outputs>>

\* the call in the try block has returned or raised: return 0, or the
\* except clause of the exception, or the exception leaves main
MainReturn ==
    /\ proc.mode \in {"engine", "chain"}
    /\ ~proc.ended
    /\ \/ pc = "done" /\ ~chain.active
       \/ pc = "error"
    /\ proc' = MainOutcome(proc, IF pc = "error" THEN err ELSE None, guide_file)
    /\ UNCHANGED <<guide, script, max_iterations, hooks, fs, output_file, pc,
                   runs, checkpoint_file, resume_from, state, steps, i, ctx,
                   current, iter, calls, requests, raw, hookLog, err,
                   clientFailure, saves, ckObj, loaded, checkpoint, result>>
    /\ UNCHANGED <<spec_content, guide_file, chain, settings, guide_text, client, collector, monitor,
                   engine_outputs>>

----------------------------------------------------------------------------
(* The command line specification: one call of main, in a directory where  *)
(* the guide exists or not, with the checkpoint files that earlier calls   *)
(* have left and a settings file.                                          *)

InitMain ==
    /\ guide \in GuideDocs
    /\ script = <<<<"x">>, <<"y">>>>
    /\ max_iterations = Config.max_iterations
    /\ hooks = {}
    /\ fs = MainFiles
    /\ output_file = NoFile
    /\ engine_outputs = NoOutputs
    /\ settings = NoSettings
    /\ guide_text = <<>>
    /\ client = NoClient
    /\ collector = NoCollector
    /\ monitor = NoMonitor
    /\ Unused

NextMain ==
    \/ MainConfig
    \/ MainDryRun
    \/ MainSpecRequired
    \/ MainRun
    \/ MainChain
    \/ RunStep
    \/ ChainNextGuide
    \/ ChainFinish
    \/ MainReturn

SpecMain == InitMain /\ [][NextMain]_vars

----------------------------------------------------------------------------
(* The guide loader specification: GuideLoader(path).load() for every      *)
(* guide file of up to MaxLines lines drawn from lines that match the      *)
(* step pattern in its variants and lines that do not, and for a path      *)
(* where no file is.                                                       *)

RawLines ==
    {<<"Step", SP, "1", ":", SP, "a">>,
     <<"step", SP, SP, "0", "1", ":", "b">>,
     <<SP, "STEP", SP, "2", ":", SP, "c", SP>>,
     <<"Step", SP, "1", "0", ":", SP, "d", SP, "e">>,
     <<"Step", SP, "3", SP, ":", "e">>,
     <<"Step", SP, "3", ":", SP>>,
     <<"#", SP, "Step", SP, "1", ":", SP, "a">>,
     <<>>}

\* the text of the file with these lines; the last line may lack its line feed
FileText(ls, final) ==
    LET t == Flatten([k \in 1..Len(ls) |-> ls[k] \o <<LF>>]) IN
    IF final \/ t = <<>> THEN t ELSE SubSeq(t, 1, Len(t) - 1)

GuideTexts ==
    {NoFile} \cup
    {FileText(ls, final) :
        ls \in UNION {[1..n -> RawLines] : n \in 0..MaxLines}, final \in BOOLEAN}

InitGuide ==
    /\ guide_text \in GuideTexts
    /\ client = NoClient
    /\ collector = NoCollector
    /\ monitor = NoMonitor
    /\ guide = ReadGuide(guide_text)
    /\ settings = NoSettings
    /\ script = <<"x">>
    /\ max_iterations = 1
    /\ hooks = {}
    /\ fs = [p \in Paths |-> NoFile]
    /\ output_file = NoFile
    /\ engine_outputs = NoOutputs
    /\ Unused

\* GuideLoader(path).load(): the list it returns, or the exception it raises
LoaderLoad ==
    /\ pc = "idle"
    /\ LET g == GuideLoad(ReadGuide(guide_text)) IN
        /\ steps' = g.steps
        /\ err' = g.err
        /\ pc' = IF g.ok THEN "loaded" ELSE "error"
    /\ UNCHANGED <<guide, script, max_iterations, hooks, fs, output_file, runs,
                   checkpoint_file, resume_from, state, i, ctx, current,
                   iter, calls, requests, raw, hookLog, clientFailure,
                   saves, ckObj, loaded, checkpoint, result>>
    /\ UNCHANGED <<spec_content, guide_file, chain, proc, settings,
                   guide_text, client, collector, monitor, engine_outputs>>

NextGuide == LoaderLoad

SpecGuide == InitGuide /\ [][NextGuide]_vars

----------------------------------------------------------------------------
(* The settings specification: Config.from_json of a file that holds a     *)
(* JSON object of up to MaxMembers members, drawn from fields of Config     *)
(* and names that are no field, a file that holds a list, a file that is   *)
(* not JSON, and no file.                                                  *)

SettingsKeys == {<<"model_a">>, <<"max_iterations">>, <<"output_file">>,
                 <<"exec">>, <<"__class__">>}

SettingsValues == {JStr(<<"v">>), JInt(1)}

SettingsRecords ==
    UNION {[1..n -> {JPair(k, v) : k \in SettingsKeys, v \in SettingsValues}] :
              n \in 0..MaxMembers}

SettingsFiles ==
    {NoFile, <<"{">>, JsonEncode(JList(<<JStr(<<"model_a">>)>>))}
    \cup {JsonEncode(JObj(ps)) : ps \in SettingsRecords}

InitConfig ==
    /\ settings \in {[NoSettings EXCEPT !.file = t] : t \in SettingsFiles}
    /\ guide = NoGuide
    /\ guide_text = NoFile
    /\ client = NoClient
    /\ collector = NoCollector
    /\ monitor = NoMonitor
    /\ script = <<"x">>
    /\ max_iterations = 1
    /\ hooks = {}
    /\ fs = [p \in Paths |-> NoFile]
    /\ output_file = NoFile
    /\ engine_outputs = NoOutputs
    /\ Unused

\* Config.from_json(path)
ConfigFromJson ==
    /\ ~settings.loaded
    /\ LET c == from_json(settings.file) IN
           settings' = [loaded |-> TRUE, file |-> settings.file, ok |-> c.ok,
                        config |-> c.config, err |-> c.err]
    /\ UNCHANGED <<guide, script, max_iterations, hooks, fs, output_file, pc,
                   runs, checkpoint_file, resume_from, state, steps, i, ctx,
                   current, iter, calls, requests, raw, hookLog, err,
                   clientFailure, saves, ckObj, loaded, checkpoint, result>>
    /\ UNCHANGED <<spec_content, guide_file, chain, proc, guide_text, client, collector, monitor,
                   engine_outputs>>

NextConfig == ConfigFromJson

SpecConfig == InitConfig /\ [][NextConfig]_vars

----------------------------------------------------------------------------
(* The generation client specification: calls of OllamaClient.query, each  *)
(* attempt of the retry loop a step with the outcome of its requests.post. *)

MaxRequests == 2

\* the workflow variables the client, the collector and the monitor leave
\* alone
engineVars ==
    <<guide, max_iterations, hooks, fs, output_file, pc, runs,
      checkpoint_file, resume_from, state, steps, i, ctx, current, iter,
      calls, raw, hookLog, err, clientFailure, saves, ckObj, loaded, result,
      spec_content, guide_file, chain, proc, settings, guide_text,
      engine_outputs, checkpoint>>

\* no WorkflowEngine, no chain, no main
NoEngine ==
    /\ guide = NoGuide
    /\ guide_text = <<>>
    /\ settings = NoSettings
    /\ max_iterations = Config.max_iterations
    /\ hooks = {}
    /\ fs = [p \in Paths |-> NoFile]
    /\ output_file = NoFile
    /\ engine_outputs = NoOutputs
    /\ Unused

InitQuery ==
    /\ script \in Scripts
    /\ client = NoClient
    /\ collector = NoCollector
    /\ monitor = NoMonitor
    /\ NoEngine

\* query(request) is called: the retry loop starts with attempt 0
QueryCall ==
    /\ client.status # "trying"
    /\ requests < MaxRequests
    /\ requests' = requests + 1
    /\ client' = [NoClient EXCEPT !.status = "trying"]
    /\ UNCHANGED <<script, collector, monitor>>
    /\ UNCHANGED engineVars

\* one pass of the retry loop: requests.post, raise_for_status, and the
\* return or the except clause
QueryAttempt ==
    /\ client.status = "trying"
    /\ \E o \in AttemptOutcomes :
           client' = LoopEnd(Attempt(client, o,
                                     Response(script, requests, client.attempt)))
    /\ UNCHANGED <<script, requests, collector, monitor>>
    /\ UNCHANGED engineVars

NextQuery ==
    \/ QueryCall
    \/ QueryAttempt

SpecQuery == InitQuery /\ [][NextQuery]_vars

----------------------------------------------------------------------------
(* The telemetry specification: threads calling the methods of one         *)
(* MetricsCollector.  self._lock is a threading.Lock: a thread enters a    *)
(* "with self._lock" block only while no thread, itself included, holds    *)
(* the lock.  A step is the entry into or the exit from such a block.      *)

MaxCalls == 3

CollectorOps ==
    {"start_workflow", "complete_step", "fail_step", "end_workflow",
     "increment_counter"}

\* the metric calls a workflow method makes inside its block, in order
\* (increment_counter and record_histogram, each with its own block)
MetricCalls(op) ==
    IF op = "start_workflow" THEN <<"workflows_started">>
    ELSE IF op = "complete_step" THEN <<"steps_completed", "tokens_per_step">>
    ELSE IF op = "fail_step" THEN <<"steps_failed", "errors">>
    ELSE IF op = "end_workflow" THEN <<"workflows_completed", "workflow_duration">>
    ELSE <<>>

\* what the block of a workflow method does to the workflow record before
\* its first metric call
Tracked(wf, op) ==
    IF op = "start_workflow"
    THEN [tracked |-> TRUE, completed_steps |-> 0, failed_steps |-> 0,
          status |-> "running"]
    ELSE IF ~wf.tracked THEN wf
    ELSE IF op = "complete_step" THEN [wf EXCEPT !.completed_steps = @ + 1]
    ELSE IF op = "fail_step" THEN [wf EXCEPT !.failed_steps = @ + 1]
    ELSE [wf EXCEPT !.status = "completed"]

\* the collector is the only object the telemetry methods touch
OnlyCollector ==
    /\ UNCHANGED <<script, requests, client, monitor>>
    /\ UNCHANGED engineVars

\* a thread calls a method of the collector
CollectorCall(t) ==
    /\ OnlyCollector
    /\ collector.threads[t].pc \in {"idle", "returned"}
    /\ collector.calls < MaxCalls
    /\ \E op \in CollectorOps, w \in WorkflowIds :
           collector' =
               [collector EXCEPT
                   !.calls = @ + 1,
                   !.threads[t] =
                       IF op = "increment_counter"
                       THEN [pc |-> "metric_enter", op |-> op, workflow_id |-> None,
                             nested |-> FALSE, todo |-> <<"n">>]
                       ELSE [pc |-> "enter", op |-> op, workflow_id |-> w,
                             nested |-> TRUE, todo |-> <<>>]]

\* with self._lock of a workflow method, and its block up to the first
\* metric call or, for a workflow that is not tracked, to its end
MethodAcquire(t) ==
    LET th == collector.threads[t]
        wf == collector.workflows[th.workflow_id]
        runs_block == th.op = "start_workflow" \/ wf.tracked
    IN
    /\ OnlyCollector
    /\ th.pc = "enter"
    /\ collector.lock = "free"
    /\ collector' =
           [collector EXCEPT
               !.lock = t,
               !.workflows[th.workflow_id] = Tracked(wf, th.op),
               !.threads[t] =
                   IF runs_block
                   THEN [th EXCEPT !.pc = "metric_enter", !.todo = MetricCalls(th.op)]
                   ELSE [th EXCEPT !.pc = "exit"]]

\* with self._lock of increment_counter or record_histogram, and the block
MetricAcquire(t) ==
    LET th == collector.threads[t] IN
    /\ OnlyCollector
    /\ th.pc = "metric_enter"
    /\ collector.lock = "free"
    /\ collector' =
           [collector EXCEPT
               !.lock = t,
               !.metrics[Head(th.todo)] = @ + 1,
               !.threads[t] = [th EXCEPT !.pc = "metric_exit"]]

\* the end of the block of increment_counter or record_histogram: the lock
\* is released and the call returns to its caller
MetricRelease(t) ==
    LET th == collector.threads[t]
        rest == Tail(th.todo)
    IN
    /\ OnlyCollector
    /\ th.pc = "metric_exit"
    /\ collector' =
           [collector EXCEPT
               !.lock = "free",
               !.threads[t] =
                   [th EXCEPT !.todo = rest,
                              !.pc = IF rest # <<>> THEN "metric_enter"
                                     ELSE IF th.nested THEN "exit"
                                     ELSE "returned"]]

\* the end of the block of a workflow method: the lock is released and the
\* method returns
MethodRelease(t) ==
    LET th == collector.threads[t] IN
    /\ OnlyCollector
    /\ th.pc = "exit"
    /\ collector' =
           [collector EXCEPT
               !.lock = "free",
               !.threads[t] = [th EXCEPT !.pc = "returned"]]

CollectorStep(t) ==
    \/ MethodAcquire(t)
    \/ MetricAcquire(t)
    \/ MetricRelease(t)
    \/ MethodRelease(t)

InitTelemetry ==
    /\ script = <<"x">>
    /\ client = NoClient
    /\ collector = NoCollector
    /\ monitor = NoMonitor
    /\ NoEngine

NextTelemetry ==
    \/ \E t \in Threads : CollectorCall(t)
    \/ \E t \in Threads : MethodAcquire(t)
    \/ \E t \in Threads : MetricAcquire(t)
    \/ \E t \in Threads : MetricRelease(t)
    \/ \E t \in Threads : MethodRelease(t)

\* a thread that can take a step takes it: the interpreter schedules every
\* thread that is not blocked
SpecTelemetry ==
    /\ InitTelemetry
    /\ [][NextTelemetry]_vars
    /\ \A t \in Threads : WF_vars(CollectorStep(t))

----------------------------------------------------------------------------
(* The checkpoint store specification: Checkpoint.save of a drawn          *)
(* Checkpoint to a path that holds nothing, a broken file or an older      *)
(* checkpoint, then Checkpoint.load of that path.                          *)

CkAlphabet == {"n", DQ, BS, LF}

CkTexts == UNION {[1..k -> CkAlphabet] : k \in 0..CkStrLen}

\* a list of n texts: a, b, a, ...
Alternating(a, b, n) == [k \in 1..n |-> IF k % 2 = 1 THEN a ELSE b]

DrawnCheckpoints ==
    {Checkpoint(a, b, c, a \o b, Alternating(a, b, n), b \o a) :
        a \in CkTexts, b \in CkTexts, c \in (0 - 1)..CkMaxCount, n \in 0..CkMaxCount}

OldCheckpoint == Checkpoint(<<"o">>, <<"l">>, 1, <<"d">>, <<<<"o">>>>, <<"T">>)

PriorContents == {NoFile, <<"{">>, JsonEncode(ToDict(OldCheckpoint))}

InitCk ==
    /\ guide = NoGuide
    /\ script = <<>>
    /\ max_iterations = 1
    /\ hooks = {}
    /\ fs \in [Paths -> PriorContents]
    /\ output_file = NoFile
    /\ pc = "ck_new"
    /\ runs = 0
    /\ checkpoint_file \in Paths
    /\ resume_from = None
    /\ state = StateManager
    /\ steps = <<>>
    /\ i = 0
    /\ ctx = NoContext
    /\ current = <<>>
    /\ iter = 0
    /\ calls = <<>>
    /\ requests = 0
    /\ raw = NoRaw
    /\ hookLog = <<>>
    /\ err = None
    /\ clientFailure = None
    /\ saves = 0
    /\ ckObj \in DrawnCheckpoints
    /\ loaded = Loaded(NoCheckpoint)
    /\ checkpoint = NoCheckpoint
    /\ result = NoResult
    /\ spec_content = <<>>
    /\ guide_file = <<>>
    /\ chain = NoChain
    /\ proc = NoProc
    /\ settings = NoSettings
    /\ guide_text = <<>>
    /\ client = NoClient
    /\ collector = NoCollector
    /\ monitor = NoMonitor
    /\ engine_outputs = NoOutputs

\* checkpoint.save(path)
CkSave ==
    /\ pc = "ck_new"
    /\ fs' = CheckpointSave(fs, ckObj, checkpoint_file)
    /\ pc' = "ck_saved"
    /\ UNCHANGED <<guide, script, max_iterations, hooks, output_file, runs,
                   checkpoint_file, resume_from, state, steps, i, ctx, current,
                   iter, calls, requests, raw, hookLog, err, clientFailure,
                   saves, ckObj, loaded, checkpoint, result>>
    /\ UNCHANGED <<spec_content, guide_file, chain, proc, settings,
                   guide_text, client, collector, monitor, engine_outputs>>

\* Checkpoint.load(path)
CkLoad ==
    /\ pc = "ck_saved"
    /\ loaded' = CheckpointLoad(fs, checkpoint_file)
    /\ checkpoint' = CheckpointLoad(fs, checkpoint_file).ck
    /\ pc' = "ck_loaded"
    /\ UNCHANGED <<guide, script, max_iterations, hooks, fs, output_file, runs,
                   checkpoint_file, resume_from, state, steps, i, ctx, current,
                   iter, calls, requests, raw, hookLog, err, clientFailure,
                   saves, ckObj, result>>
    /\ UNCHANGED <<spec_content, guide_file, chain, proc, settings,
                   guide_text, client, collector, monitor, engine_outputs>>

NextCk ==
    \/ CkSave
    \/ CkLoad

SpecCk == InitCk /\ [][NextCk]_vars

----------------------------------------------------------------------------
(* Claims.                                                                 *)

\* C2: Checkpoint round trip.  For every Checkpoint C, Checkpoint.load of
\* the path C was saved to returns a Checkpoint equal to C in all six
\* fields, the per-step outputs in their order (also the empty list with
\* completed_steps 0); after save the path holds the text of C alone,
\* whatever it held before.
C2_RoundTrip ==
    /\ pc \in {"ck_saved", "ck_loaded"} =>
           fs[checkpoint_file] = JsonEncode(ToDict(ckObj))
    /\ pc = "ck_loaded" =>
           /\ loaded.ok
           /\ loaded.ck.guide_file = ckObj.guide_file
           /\ loaded.ck.spec = ckObj.spec
           /\ loaded.ck.completed_steps = ckObj.completed_steps
           /\ loaded.ck.cumulative_output = ckObj.cumulative_output
           /\ loaded.ck.step_outputs = ckObj.step_outputs
           /\ loaded.ck.timestamp = ckObj.timestamp

\* a Checkpoint with no per-step output, completed_steps 0 and a backslash
\* in its texts has been saved and loaded
C2_Witness ==
    /\ pc = "ck_loaded"
    /\ loaded.ok
    /\ ckObj.step_outputs = <<>>
    /\ ckObj.completed_steps = 0
    /\ ckObj.spec = <<BS>>
    /\ loaded.ck.step_outputs = <<>>


(* The uninterrupted run that C1 and C4 compare with: what process makes   *)
(* of the script for the step with index k, and the accumulated output of  *)
(* a run that is never paused.                                             *)

RECURSIVE RefIterate(_, _, _, _)
\* an iterative stage from its pass it on: the text it returns and the
\* number of the next request of the step
RefIterate(cur, it, k, callNo) ==
    IF it >= max_iterations THEN [text |-> cur, callNo |-> callNo]
    ELSE LET new_output == Response(script, k, callNo) IN
         IF new_output = cur THEN [text |-> cur, callNo |-> callNo + 1]
         ELSE RefIterate(new_output, it + 1, k, callNo + 1)

RefHook(name, text) == IF name \in hooks THEN HookFn(name, text) ELSE text

RefStepOutput(k) ==
    LET d == RefHook("post_draft", Response(script, k, 0))
        r == RefIterate(d, 0, k, 1)
        c == RefHook("post_correction", r.text)
        h == RefIterate(c, 0, k, r.callNo)
    IN RefHook("post_security", h.text)

\* the per-step outputs of the first n steps
RefOutputs(n) == [k \in 1..n |-> RefStepOutput(k - 1)]

\* the accumulated output after the first n steps
RefOutput(n) == Flatten([k \in 1..n |-> Formatted(k - 1, RefStepOutput(k - 1))])

\* the step count run resumed at (0 for a fresh start)
StartStep == IF resume_from # None /\ loaded.ck # NoCheckpoint
             THEN loaded.ck.completed_steps ELSE 0

\* C1: Resume equivalence.  A run of a new engine that resumes from the
\* checkpoint an earlier run wrote after step K (any K from 0, where no
\* checkpoint exists yet, to N) and completes the remaining steps returns
\* and writes exactly the accumulated output of one uninterrupted run over
\* the same guide and responses.
C1_ResumeEquivalence ==
    pc = "done" =>
        /\ result = RefOutput(Len(steps))
        /\ output_file = RefOutput(Len(steps))

\* a run resumed after step 1 of a two-step guide, by the second engine, is done
C1_Witness ==
    /\ pc = "done"
    /\ runs = 2
    /\ resume_from # None
    /\ StartStep = 1
    /\ Len(steps) = 2
    /\ state.current_step_index = 2

\* C3: if the process is terminated at any point of a run with
\* checkpointing enabled, the checkpoint file is absent or holds a complete
\* snapshot that a later run can load and resume from.
C3_KilledCheckpointLoadable ==
    pc = "killed" =>
        \A p \in Paths : fs[p] = NoFile \/ CheckpointLoad(fs, p).ok

\* C4: when a generation request fails while step k is in flight, the run
\* ends with that error and returns nothing; the state holds exactly the
\* outputs of the steps before k; this run saved one checkpoint per step
\* it completed and none for step k; the checkpoint on storage, if this
\* run wrote one, records the state after step k - 1, so that a resume
\* starts step k at its draft stage.
C4_FailureKeepsProgress ==
    (pc = "error" /\ clientFailure # None) =>
        /\ err = clientFailure
        /\ result = NoResult
        /\ ctx.step_number = i + 1
        /\ state.current_step_index = i
        /\ state.step_outputs = RefOutputs(i)
        /\ state.cumulative_output = RefOutput(i)
        /\ saves = (IF checkpoint_file = None THEN 0 ELSE i - StartStep)
        /\ saves >= 1 =>
               LET ld == CheckpointLoad(fs, checkpoint_file)
                   L == LoopAt(ld.ck.completed_steps, steps, spec_content, Restore(ld.ck))
               IN /\ ld.ok
                  /\ ld.ck.completed_steps = i
                  /\ ld.ck.step_outputs = state.step_outputs
                  /\ ld.ck.cumulative_output = state.cumulative_output
                  /\ L.pc = "draft"
                  /\ L.ctx.step_number = ctx.step_number
                  /\ L.ctx.previous_output = ctx.previous_output

\* a request of step 2 has failed in its harden stage after step 1 was
\* completed and saved by this run
C4_Witness ==
    /\ pc = "error"
    /\ clientFailure = "TimeoutError"
    /\ ctx.step_number = 2
    /\ saves = 1
    /\ calls[Len(calls)].model = "model_c"

\* C9: the pipeline never retries.  Once the client has raised, the run
\* has ended with that very exception: the failed request is the last one
\* of the step, no stage returned and no hook ran after it, nothing was
\* appended or saved for the step, and run returns nothing.
C9_NoRetry ==
    clientFailure # None =>
        /\ pc = "error"
        /\ err = clientFailure
        /\ calls # <<>>
        /\ ~calls[Len(calls)].ok
        /\ \A k \in 1..(Len(calls) - 1) : calls[k].ok
        /\ requests >= Len(calls)
        /\ LET failed == calls[Len(calls)].model IN
              /\ failed = "model_a" => raw = NoRaw /\ hookLog = <<>>
              /\ failed = "model_b" =>
                     /\ raw.corrected = <<>> /\ raw.secured = <<>>
                     /\ \A k \in 1..Len(hookLog) : hookLog[k].hook = "post_draft"
              /\ failed = "model_c" =>
                     /\ raw.secured = <<>>
                     /\ \A k \in 1..Len(hookLog) : hookLog[k].hook # "post_security"
        /\ state.current_step_index = i
        /\ result = NoResult

\* the client raised ConnectionError on a refine request after the draft hook ran
C9_Witness ==
    /\ clientFailure = "ConnectionError"
    /\ pc = "error"
    /\ err = "ConnectionError"
    /\ calls[Len(calls)].model = "model_b"
    /\ Len(calls) >= 3
    /\ hookLog # <<>>

\* C10: add_step_output(output) on a state with count c makes the count
\* c + 1, makes output the last element of the list and leaves the earlier
\* ones, and makes the context the old context followed by the section
\* headed "Step c+1 Output" that holds output; and no step of a run
\* removes or edits an earlier entry of the list or of the context.
C10_Append ==
    [][/\ (pc = "append" /\ pc' # "killed") =>
              /\ state'.current_step_index = state.current_step_index + 1
              /\ Len(state'.step_outputs) = Len(state.step_outputs) + 1
              /\ state'.step_outputs[Len(state'.step_outputs)] = ctx.secured
              /\ SubSeq(state'.step_outputs, 1, Len(state.step_outputs))
                     = state.step_outputs
              /\ state'.cumulative_output =
                     state.cumulative_output
                     \o <<LF, HdrA>> \o NatStr(state.current_step_index + 1)
                     \o <<HdrB, LF>> \o ctx.secured \o <<LF>>
       /\ (pc \in Running /\ pc' \notin {"killed", "idle"}) =>
              /\ IsPrefix(state.step_outputs, state'.step_outputs)
              /\ IsPrefix(state.cumulative_output, state'.cumulative_output)
      ]_vars

\* two outputs have been appended to the state of one engine
C10_Witness ==
    /\ pc \in Running
    /\ state.current_step_index = 2
    /\ Len(state.step_outputs) = 2
    /\ StartStep = 0


(* The requests of one step by stage, and when a stage has returned.       *)

CallsOf(model) == SelectSeq(calls, LAMBDA c : c.model = model)
RefineCalls == CallsOf("model_b")
HardenCalls == CallsOf("model_c")
DraftDone == calls # <<>> /\ calls[1].ok
RefineDone == pc \in {"harden", "append"} \/ HardenCalls # <<>>
HardenDone == pc = "append"
SameResponses(cs) == \A j \in 1..Len(cs), k \in 1..Len(cs) : cs[j].response = cs[k].response

\* C5 as claimed: if every request of the Refine stage returns one
\* identical string, the stage makes exactly one request, whatever the
\* draft.
C5_OneCallWhateverTheDraft ==
    (RefineDone /\ SameResponses(RefineCalls)) => Len(RefineCalls) = 1

\* C5, amended: if every request of the Refine stage returns one identical
\* string, the stage makes exactly one request when that string equals the
\* text the stage starts from (the draft after its hook) or max_iterations
\* is 1, and exactly two requests otherwise; it does not go on to
\* max_iterations requests.
C5_Convergence ==
    (RefineDone /\ SameResponses(RefineCalls)) =>
        Len(RefineCalls) =
            (IF RefineCalls[1].response = ctx.draft \/ max_iterations = 1
             THEN 1 ELSE 2)

\* Refine returned after two identical responses that differ from the
\* draft, with max_iterations 3
C5_Witness ==
    /\ RefineDone
    /\ max_iterations = 3
    /\ Len(RefineCalls) = 2
    /\ SameResponses(RefineCalls)
    /\ RefineCalls[1].response # ctx.draft

\* the requests cs of one iterative stage that starts from the text input
\* and, when done, returned ret
StageLoop(cs, input, ret, done) ==
    LET n == Len(cs) IN
    /\ n <= max_iterations
    /\ \A j \in 1..n :
           cs[j].prompt.text = (IF j = 1 THEN input ELSE cs[j - 1].response)
    /\ \A j \in 1..(n - 1) : cs[j].ok /\ cs[j].response # cs[j].prompt.text
    /\ done =>
           /\ n >= 1
           /\ cs[n].ok
           /\ cs[n].response = cs[n].prompt.text \/ n = max_iterations
           /\ ret = cs[n].response
    /\ (~done /\ n >= 1 /\ cs[n].ok) =>
           /\ cs[n].response # cs[n].prompt.text
           /\ n < max_iterations

\* C6: each iterative stage with max_iterations = M >= 1 makes between 1
\* and M requests; each request carries the current text, which is the
\* stage's input at first and the previous response afterwards; the stage
\* stops right after the first response equal to the current text and
\* after the M-th request in any case, and returns the last response.
C6_IterativeStage ==
    /\ StageLoop(RefineCalls, ctx.draft, raw.corrected, RefineDone)
    /\ StageLoop(HardenCalls, ctx.corrected, raw.secured, HardenDone)

\* Refine made max_iterations = 3 requests without converging and Harden
\* stopped at its first request
C6_Witness ==
    /\ pc = "append"
    /\ max_iterations = 3
    /\ Len(RefineCalls) = 3
    /\ RefineCalls[3].response # RefineCalls[3].prompt.text
    /\ Len(HardenCalls) = 1

Rank(model) == IF model = "model_a" THEN 1 ELSE IF model = "model_b" THEN 2 ELSE 3
RoleOf(model) ==
    IF model = "model_a" THEN [temperature |-> "temp_creative", kind |-> "creative"]
    ELSE IF model = "model_b" THEN [temperature |-> "temp_analytical", kind |-> "correction"]
    ELSE [temperature |-> "temp_adversarial", kind |-> "security"]

\* C7: within one step the requests go out in stage order: one draft
\* request (creative model and temperature) first, then the Refine
\* requests (analytical), then the Harden requests (adversarial); Refine
\* starts from the draft, Harden starts from Refine's output, and process
\* returns Harden's output (each as its StepContext slot holds it; with no
\* hook that is the stage's last response).
C7_StageOrder ==
    /\ \A j \in 1..Len(calls) :
           /\ (j = 1) <=> (calls[j].model = "model_a")
           /\ calls[j].temperature = RoleOf(calls[j].model).temperature
           /\ calls[j].prompt.kind = RoleOf(calls[j].model).kind
           /\ calls[j].prompt.previous_output = ctx.previous_output
           /\ \A k \in (j + 1)..Len(calls) :
                  Rank(calls[j].model) <= Rank(calls[k].model)
    /\ pc = "draft" <=> calls = <<>>
    /\ pc = "refine" => HardenCalls = <<>>
    /\ RefineCalls # <<>> =>
           /\ DraftDone
           /\ RefineCalls[1].prompt.text = ctx.draft
           /\ "post_draft" \notin hooks => ctx.draft = calls[1].response
    /\ HardenCalls # <<>> =>
           /\ RefineCalls # <<>>
           /\ HardenCalls[1].prompt.text = ctx.corrected
           /\ "post_correction" \notin hooks =>
                  ctx.corrected = RefineCalls[Len(RefineCalls)].response
    /\ pc = "append" =>
           /\ HardenCalls # <<>>
           /\ "post_security" \notin hooks =>
                  ctx.secured = HardenCalls[Len(HardenCalls)].response

\* process has returned after one draft, two Refine and two Harden requests
C7_Witness ==
    /\ pc = "append"
    /\ hooks = {}
    /\ Len(calls) = 5
    /\ Len(RefineCalls) = 2
    /\ Len(HardenCalls) = 2
    /\ ctx.secured # ctx.draft

HookEntries(h) == SelectSeq(hookLog, LAMBDA e : e.hook = h)

\* the hook h of the stage with the slot slot, once the stage has produced its output
HookOnce(h, slot, produced) ==
    /\ (produced /\ h \in hooks) =>
           /\ Len(HookEntries(h)) = 1
           /\ HookEntries(h)[1].arg = raw[slot]
           /\ ctx[slot] = HookFn(h, raw[slot])
    /\ (produced /\ h \notin hooks) => ctx[slot] = raw[slot]
    /\ (~produced \/ h \notin hooks) => HookEntries(h) = <<>>

\* C8: for each stage, a supplied hook is invoked exactly once, on the
\* stage's output and before the next stage's first request, and its
\* result replaces the stage output: Refine starts from hook(draft), Harden
\* from hook(refined), process returns hook(hardened); with no hook the
\* stage output is passed on unchanged.
C8_Hooks ==
    /\ HookOnce("post_draft", "draft", DraftDone)
    /\ HookOnce("post_correction", "corrected", RefineDone)
    /\ HookOnce("post_security", "secured", HardenDone)
    /\ DraftDone => raw.draft = calls[1].response
    /\ RefineDone => raw.corrected = RefineCalls[Len(RefineCalls)].response
    /\ HardenDone => raw.secured = HardenCalls[Len(HardenCalls)].response
    /\ RefineCalls # <<>> =>
           RefineCalls[1].prompt.text = RefHook("post_draft", raw.draft)
    /\ HardenCalls # <<>> =>
           HardenCalls[1].prompt.text = RefHook("post_correction", raw.corrected)
    /\ HardenDone => ctx.secured = RefHook("post_security", raw.secured)
    /\ \A j \in 1..Len(hookLog) : \A k \in (j + 1)..Len(hookLog) :
           /\ hookLog[j].hook # hookLog[k].hook
           /\ hookLog[j].hook = "post_draft" \/ hookLog[k].hook = "post_security"

\* process has returned with all three hooks supplied and each invoked
C8_Witness ==
    /\ pc = "append"
    /\ hooks = HookNames
    /\ Len(hookLog) = 3
    /\ ctx.secured = raw.secured \o <<"S">>
    /\ RefineCalls[1].prompt.text = raw.draft \o <<"D">>

----------------------------------------------------------------------------
(* Claims about the Accumulation State, the checkpoints and the driver.    *)

\* the context that the list outs determines: for k = 1..n in order, the
\* section headed "Step k Output" followed by the k-th output
SectionsOf(outs) == Flatten([k \in 1..Len(outs) |-> Formatted(k - 1, outs[k])])

\* C11: in every reachable state of a Workflow Driver (fresh, restored
\* from any loadable checkpoint, after any number of appends) the
\* completed-step count equals the length of the per-step output list.
C11_CountIsLength ==
    state.current_step_index = Len(state.step_outputs)

\* C12: in every reachable state of a Workflow Driver (also after a
\* restore from any loadable checkpoint) the accumulated context is the
\* concatenation, for k = 1..n in order, of the section headed
\* "Step k Output" followed by the k-th output of the list.
C12_ContextIsFunctionOfList ==
    state.cumulative_output = SectionsOf(state.step_outputs)

\* C13: every Checkpoint that save writes or load returns has a
\* completed-step count equal to the length of its per-step output list.
C13_CheckpointCountIsLength ==
    /\ pc \in {"ck_saved", "ck_loaded"} =>
           ckObj.completed_steps = Len(ckObj.step_outputs)
    /\ (pc = "ck_loaded" /\ loaded.ok) =>
           loaded.ck.completed_steps = Len(loaded.ck.step_outputs)

\* C16: every call of run with no resume checkpoint supplied starts
\* fresh: its first step is the step of index 0 and is processed on an
\* empty Accumulation State (count 0, empty list, empty context), also
\* when run is called again on an engine that has completed a run.
C16_FreshStart ==
    (pc = "draft" /\ resume_from = None /\ requests = 0) =>
        /\ i = 0
        /\ state = StateManager
        /\ ctx.previous_output = <<>>

\* the text of the file that holds exactly the snapshot of the state st
SnapshotOf(st) ==
    JsonEncode(ToDict(Checkpoint(guide_file, spec_content, st.current_step_index,
                                 st.cumulative_output, st.step_outputs, Now)))

\* a step of this run was appended and the next request was not made yet
BetweenSteps ==
    /\ i > StartStep
    /\ \/ pc = "draft" /\ calls = <<>>
       \/ pc = "write_output"

\* C14: with a checkpoint path configured, once a step was appended and
\* before the next step's first generation request the checkpoint file
\* holds exactly one snapshot (the previous content overwritten), whose
\* count, list and output are those of the state right after the append;
\* after a full run of N steps it records N completed steps; with no
\* checkpoint path configured no step of a run writes a checkpoint.
C14_CheckpointAfterEachStep ==
    /\ [](/\ (checkpoint_file # None /\ BetweenSteps) =>
                 /\ fs[checkpoint_file] = SnapshotOf(state)
                 /\ state.current_step_index = i
                 /\ saves = i - StartStep
          /\ (checkpoint_file # None /\ pc = "done" /\ StartStep = 0
                  /\ steps # <<>>) =>
                 /\ fs[checkpoint_file] = SnapshotOf(state)
                 /\ CheckpointLoad(fs, checkpoint_file).ck.completed_steps
                        = Len(steps))
    /\ [][(checkpoint_file = None /\ pc \in Running) =>
              /\ fs' = fs
              /\ saves' = 0
         ]_vars

\* the second run has overwritten the snapshot of the first and is done
C14_Witness ==
    /\ pc = "done"
    /\ runs = 2
    /\ checkpoint_file # None
    /\ StartStep = 0
    /\ saves = 2
    /\ Len(steps) = 2

\* this run loaded a checkpoint and restored the state from it
Resumed == resume_from # None /\ loaded.ck # NoCheckpoint
               /\ pc \in Running \cup {"done", "error"}

\* the positions at which a step is in the pipeline or being recorded
InStep == {"draft", "refine", "harden", "append", "save_open", "save_dump"}

\* C15: a run given a resume checkpoint that exists with count K starts
\* from the checkpoint's snapshot; the steps it sends through the pipeline
\* are those at the positions K+1..N of the parsed guide, one after the
\* other in order; no step at a position <= K is processed again.
C15_ResumeAtK ==
    /\ [](Resumed =>
            LET K == loaded.ck.completed_steps IN
            /\ (pc = "draft" /\ requests = 0) =>
                   /\ i = K
                   /\ state = [cumulative_output |-> loaded.ck.cumulative_output,
                               step_outputs |-> loaded.ck.step_outputs,
                               current_step_index |-> K]
                   /\ ctx.previous_output = loaded.ck.cumulative_output
            /\ pc \in InStep =>
                   /\ K <= i /\ i < Len(steps)
                   /\ ctx.step_number = i + 1
                   /\ ctx.step_number > K
                   /\ ctx.step_description = steps[i + 1]
                   /\ state.current_step_index \in {i, i + 1}
            /\ pc \in {"write_output", "done"} =>
                   /\ i = (IF K <= Len(steps) THEN Len(steps) ELSE K)
                   /\ state.current_step_index = i
                   /\ Len(state.step_outputs)
                          = Len(loaded.ck.step_outputs) + (i - K)
                   /\ K > Len(steps) => requests = 0
                   /\ IsPrefix(loaded.ck.step_outputs, state.step_outputs)
                   /\ IsPrefix(loaded.ck.cumulative_output, state.cumulative_output))
    /\ [][(Resumed /\ Resumed' /\ runs' = runs /\ i' # i) =>
              /\ i' = i + 1
              /\ pc \in {"append", "save_dump"}
              /\ state'.current_step_index = i'
         ]_vars

\* a new engine resumed after step 1 from a checkpoint a caller saved and
\* has processed step 2 of the two steps
C15_Witness ==
    /\ Resumed
    /\ runs = 1
    /\ pc = "done"
    /\ loaded.ck.completed_steps = 1
    /\ loaded.ck.cumulative_output = <<"p">>
    /\ Len(steps) = 2
    /\ requests >= 3

\* C17: steps are processed one at a time in ascending guide order with
\* none skipped: the context in the StepContext of the step in flight is
\* the context of the Accumulation State right after the previous step's
\* append (empty for the first step of a fresh run), and every generation
\* request of a step is issued after the append of the previous step.
C17_StepOrder ==
    /\ [](pc \in {"draft", "refine", "harden", "append"} =>
             /\ i < Len(steps)
             /\ ctx.step_number = i + 1
             /\ ctx.step_description = steps[i + 1]
             /\ state.current_step_index = i
             /\ Len(state.step_outputs) = i
             /\ ctx.previous_output = get_context(state)
             /\ ctx.previous_output = RefOutput(i)
             /\ (i = 0 /\ StartStep = 0) => ctx.previous_output = <<>>)
    /\ [][/\ requests' > requests =>
                 /\ requests' = requests + 1
                 /\ pc \in {"draft", "refine", "harden"}
                 /\ state' = state
                 /\ i' = i
                 /\ calls'[Len(calls')].prompt.previous_output = RefOutput(i)
          /\ (pc \in Running /\ pc' \in Running /\ i' # i) =>
                 /\ i' = i + 1
                 /\ pc \in {"append", "save_dump"}
                 /\ state'.current_step_index = i'
                 /\ Len(state'.step_outputs) = i'
         ]_vars

\* the second step of a fresh run is in its harden stage with the first
\* step's section as its context
C17_Witness ==
    /\ pc = "harden"
    /\ StartStep = 0
    /\ i = 1
    /\ ctx.previous_output = Formatted(0, state.step_outputs[1])
    /\ Len(calls) >= 2

\* C18: the output file is written exactly once per run, after the last
\* step's append (and checkpoint) has completed, with the final
\* accumulated context, which is also what run returns; it is not written
\* during the step loop nor when the run ends in an error.
C18_OutputWrittenOnceAtEnd ==
    /\ [](/\ pc = "write_output" =>
                 /\ i = Len(steps)
                 /\ state.current_step_index = Len(steps)
                 /\ state.cumulative_output = RefOutput(Len(steps))
                 /\ saves = (IF checkpoint_file = None THEN 0 ELSE i - StartStep)
                 /\ result = NoResult
          /\ pc = "done" =>
                 /\ output_file = state.cumulative_output
                 /\ result = output_file
                 /\ state.current_step_index = Len(steps)
          /\ pc \in (Running \cup {"error", "killed"}) => result = NoResult)
    /\ [][/\ (pc \in (Running \cup {"done", "error", "killed"})
                  /\ ~(pc = "write_output" /\ pc' = "done")) =>
                 output_file' = output_file
          /\ pc' = "done" => pc \in {"write_output", "done"}
          /\ (pc = "write_output" /\ pc' = "done") =>
                 /\ output_file' = state.cumulative_output
                 /\ state' = state
         ]_vars

\* a run with a checkpoint file has completed two steps and written its output
C18_Witness ==
    /\ pc = "done"
    /\ Len(steps) = 2
    /\ checkpoint_file # None
    /\ saves = 2
    /\ output_file = RefOutput(2)
    /\ result = output_file

\* the guide file is missing or has no line that is a step
GuideUnparsable == guide = NoGuide \/ \A k \in 1..Len(guide) : ~guide[k].match

\* the moves from one phase of run to the next
PhaseMoves ==
    {<<"draft", "refine">>, <<"refine", "harden">>, <<"harden", "append">>,
     <<"append", "save_open">>, <<"save_open", "save_dump">>,
     <<"save_dump", "draft">>, <<"save_dump", "write_output">>,
     <<"append", "draft">>, <<"append", "write_output">>,
     <<"write_output", "done">>,
     <<"draft", "error">>, <<"refine", "error">>, <<"harden", "error">>}

\* C19: run passes through its phases only in the order parse guide,
\* optionally restore checkpoint, then per step process followed by
\* checkpoint, then write output, then Done; after a guide parse failure
\* no checkpoint is read and no generation request is issued; run returns a
\* value only in Done, which it reaches only after every remaining step
\* was processed.
C19_PhaseOrder ==
    /\ [](/\ (GuideUnparsable /\ pc # "idle") =>
                 /\ pc = "error"
                 /\ err \in {"FileNotFoundError", "ValueError"}
                 /\ loaded = Loaded(NoCheckpoint)
                 /\ requests = 0 /\ calls = <<>>
                 /\ result = NoResult
          /\ result # NoResult => pc = "done"
          /\ pc = "done" =>
                 /\ result = state.cumulative_output
                 /\ i >= Len(steps)
                 /\ i = (IF StartStep <= Len(steps) THEN Len(steps) ELSE StartStep)
                 /\ ~GuideUnparsable
                 /\ clientFailure = None /\ err = None
          /\ (pc = "error" /\ ~GuideUnparsable) =>
                 \/ clientFailure # None /\ err = clientFailure
                 \/ /\ ~loaded.ok /\ err = loaded.err /\ requests = 0
                    /\ resume_from # None)
    /\ [][/\ runs' = runs + 1 =>
                 /\ pc \in {"idle", "done", "error"}
                 /\ pc' \in {"draft", "write_output", "error"}
                 /\ pc' = "write_output" =>
                        /\ loaded'.ok /\ resume_from' # None
                        /\ loaded'.ck.completed_steps >= Len(steps')
                 /\ pc' = "draft" => i' = StartStep'
          /\ (runs' = runs /\ pc' # pc /\ pc' \notin {"killed", "idle"}) =>
                 /\ <<pc, pc'>> \in PhaseMoves
                 /\ loaded' = loaded
                 /\ (pc = "append" /\ checkpoint_file # None) => pc' = "save_open"
                 /\ (pc = "append" /\ checkpoint_file = None) => pc' # "save_open"
                 /\ pc' = "draft" => i' = i + 1 /\ i' < Len(steps)
                 /\ pc' = "write_output" => i' = i + 1 /\ i' = Len(steps)
         ]_vars

\* a run given a resume checkpoint that exists has failed to parse a guide
\* without steps
C19_Witness ==
    /\ pc = "error"
    /\ err = "ValueError"
    /\ guide # NoGuide
    /\ resume_from # None
    /\ fs[resume_from] # NoFile
    /\ requests = 0

\* the passes range(max_iterations) has
Passes == IF max_iterations > 0 THEN max_iterations ELSE 0

\* the most requests one call of process can make
MaxRequestsPerStep == 1 + 2 * Passes

\* the number of steps that a run starting at index s has to process
RemainingSteps == IF StartStep <= Len(steps) THEN Len(steps) - StartStep ELSE 0

----------------------------------------------------------------------------
(* Claims C21 to C30.                                                      *)

\* the stored record has the expected structure: an object with the six
\* fields, a count that is an integer >= 0, a context that is a string and
\* per-step outputs that are a list
Conforms(data) ==
    /\ data.t = "obj"
    /\ \A k \in 1..Len(CheckpointKeys) : HasKey(data, <<CheckpointKeys[k]>>)
    /\ Lookup(data, <<"completed_steps">>).t = "int"
    /\ Lookup(data, <<"completed_steps">>).n >= 0
    /\ Lookup(data, <<"cumulative_output">>).t = "str"
    /\ Lookup(data, <<"step_outputs">>).t = "list"

\* C29: Checkpoint.load returns a Checkpoint only when the stored record
\* conforms to the expected structure (six fields, a completed-step count
\* that is an integer >= 0, a string, a list); for any other content it
\* fails.
C29_LoadOnlyConforming ==
    (pc = "ck_loaded" /\ loaded.ok) =>
        /\ JsonDecode(fs[checkpoint_file]).ok
        /\ Conforms(JsonDecode(fs[checkpoint_file]).val)


\* what a normal parse of the guide file at a path gives
NormalParse(path) == GuideLoad(GuideAt(path))

\* the guides of a dry validation that parse, up to the first that does not
Parsed(gfs) ==
    {j \in 1..Len(gfs) : \A m \in 1..j : NormalParse(gfs[m]).ok}

\* C21: dry validation, of a single guide and of a chain, only parses: the
\* step that makes it issues no generation request, writes no output file
\* and no checkpoint, and leaves the Accumulation State as it is; for each
\* guide it reports as many steps as a normal parse of the guide gives, the
\* k-th reported step being the k-th step of the parse (the chain reports
\* the first PreviewWidth characters of a description).
C21_DryRunOnlyParses ==
    /\ [](proc.mode # "none" =>
            /\ Len(proc.report) = Cardinality(Parsed(proc.dry))
            /\ (proc.raised = None) = (Parsed(proc.dry) = 1..Len(proc.dry))
            /\ \A j \in 1..Len(proc.report) :
                   LET parse == NormalParse(proc.dry[j]).steps
                       lines == proc.report[j].lines
                   IN /\ proc.report[j].guide_file = proc.dry[j]
                      /\ Len(lines) = Len(parse)
                      /\ \A k \in 1..Len(parse) :
                             LET head == <<"Step ">> \o NatStr(k) \o <<": ">> IN
                             IF proc.mode = "engine"
                             THEN lines[k] = head \o parse[k]
                             ELSE \/ /\ Len(parse[k]) <= PreviewWidth
                                     /\ lines[k] = head \o parse[k] \o <<"...">>
                                  \/ /\ Len(parse[k]) > PreviewWidth
                                     /\ Len(lines[k]) = Len(head) + PreviewWidth + 1
                                     /\ IsPrefix(SubSeq(lines[k], 1, Len(lines[k]) - 1),
                                                 head \o parse[k]))
    /\ []((pc \in Running \cup {"done"}) => steps = NormalParse(GuidePath).steps)
    /\ [][proc' # proc =>
            /\ fs' = fs /\ output_file' = output_file
            /\ engine_outputs' = engine_outputs
            /\ state' = state
            /\ requests' = requests /\ calls' = calls /\ saves' = saves]_vars

\* a chain was validated on an engine that has completed a run of two
\* steps and written its output; one guide of the chain has two steps
C21_Witness ==
    /\ proc.mode = "chain"
    /\ proc.raised = None
    /\ pc = "done"
    /\ state.current_step_index = 2
    /\ output_file # NoFile
    /\ \E j \in 1..Len(proc.report) : Len(proc.report[j].lines) = 2

\* C22: for every guide after the first of a chain, the enhanced
\* specification handed to its engine contains the output that run
\* returned for every earlier guide (which is what that guide's engine
\* wrote to its output file); the specification of the first guide is the
\* specification itself, with no "Previous context" block.
C22_ChainPropagation ==
    chain.active =>
        /\ Len(chain.outputs) = chain.idx
        /\ \A j \in 1..chain.idx :
               /\ Contains(chain.enhanced_spec, chain.outputs[j])
               /\ chain.outputs[j] =
                      engine_outputs[OutputName(j - 1, chain.guide_files[j])]
        /\ chain.idx = 0 =>
               /\ chain.enhanced_spec = chain.spec
               /\ ~Contains(chain.enhanced_spec, <<PrevHdr>>)
        /\ chain.idx > 0 => Contains(chain.enhanced_spec, <<PrevHdr>>)

\* the second guide of a chain is at its first request, and the first
\* guide has returned an output with a step in it
C22_Witness ==
    /\ chain.active
    /\ chain.idx = 1
    /\ pc = "draft"
    /\ Len(chain.outputs[1]) > 0
    /\ Contains(ctx.spec, chain.outputs[1])

\* C23: for every guide of a chain, first or later, the specification text
\* in the guide's StepContexts contains the original specification text:
\* the contents of the file when the specification passed to the chain
\* names a readable file, the string itself otherwise.
C23_OriginalSpecInEveryGuide ==
    (chain.active /\ pc \in {"draft", "refine", "harden"}) =>
        Contains(ctx.spec, ResolveSpec(chain.spec))

\* the sections of the chain context for the guides that have completed
ChainSections ==
    Flatten([j \in 1..Len(chain.outputs) |->
                <<OutHdrA>> \o chain.guide_files[j] \o <<OutHdrB>> \o chain.outputs[j]])

\* C24: the chain context only grows: it is the sections "Output from
\* <guide>" of the guides that have completed, in guide order, each with
\* the output run returned for the guide; a step that changes it appends
\* one such section for the guide that has just returned and leaves what
\* was there in place.
C24_ChainContextGrows ==
    /\ [](chain.cumulative_context = ChainSections)
    /\ [][chain'.cumulative_context # chain.cumulative_context =>
            /\ pc = "done"
            /\ chain'.cumulative_context =
                   chain.cumulative_context
                   \o <<OutHdrA>> \o guide_file \o <<OutHdrB>> \o result
            /\ IsPrefix(chain.cumulative_context, chain'.cumulative_context)]_vars

\* a chain of two different guides has returned
C24_Witness ==
    /\ chain.returned
    /\ Len(chain.outputs) = 2
    /\ chain.guide_files[1] # chain.guide_files[2]
    /\ Len(chain.cumulative_context) > Len(chain.outputs[1]) + Len(chain.outputs[2])

\* C25: the top-level output is written only after every guide of the
\* chain has completed and holds the full chain context; when the run of a
\* guide fails the chain run ends with that error: it does not return, no
\* later guide is started and the top-level output is not written.
C25_OutputAfterAllGuides ==
    /\ [](output_file # NoFile =>
            /\ chain.returned
            /\ Len(chain.outputs) = Len(chain.guide_files)
            /\ output_file = ChainSections)
    /\ [](chain.returned => output_file = chain.cumulative_context)
    /\ [](pc = "error" =>
            /\ err # None
            /\ chain.active /\ ~chain.returned
            /\ output_file = NoFile)
    /\ [][pc # "error"]_vars

\* the second guide of a chain has failed after the first completed
C25_Witness ==
    /\ pc = "error"
    /\ chain.idx = 1
    /\ Len(chain.outputs) = 1
    /\ engine_outputs[OutputName(0, chain.guide_files[1])] # NoFile
    /\ output_file = NoFile

\* the lines of the guide text that match the step pattern, by index
MatchingLines == {k \in 1..Len(guide) : guide[k].match}

\* the step ordinals that occur in the guide text
Ordinals == {guide[k].num : k \in MatchingLines}

\* C26: load returns one description per distinct step ordinal, in
\* ascending ordinal order whatever the order of the lines: the
\* description at the rank of an ordinal is that of the last line with
\* the ordinal; lines that do not match the step pattern add nothing.
C26_OrderedLastWins ==
    (pc = "loaded") =>
        /\ Len(steps) = Cardinality(Ordinals)
        /\ \A n \in Ordinals :
               LET rank == Cardinality({m \in Ordinals : m < n}) + 1
                   last == CHOOSE k \in MatchingLines :
                               /\ guide[k].num = n
                               /\ \A m \in MatchingLines :
                                      guide[m].num = n => m <= k
               IN steps[rank] = guide[last].desc

\* a guide was loaded where an ordinal occurs on two lines with different
\* descriptions, a larger ordinal stands before a smaller one and a line
\* does not match
C26_Witness ==
    /\ pc = "loaded"
    /\ \E j \in MatchingLines : \E k \in MatchingLines :
           /\ j < k
           /\ guide[j].num = guide[k].num
           /\ guide[j].desc # guide[k].desc
    /\ \E j \in MatchingLines : \E k \in MatchingLines :
           j < k /\ guide[j].num > guide[k].num
    /\ MatchingLines # 1..Len(guide)


\* the record that the settings file holds
SettingsRecord == JsonDecode(settings.file).val

\* C30: loading Settings from a structured record ignores every unknown
\* field instead of rejecting the record: the load succeeds, the result
\* has the record's value for each known field present and the default for
\* each known field absent, and its attributes are the known fields only.
C30_UnknownFieldsIgnored ==
    (/\ settings.loaded
     /\ JsonDecode(settings.file).ok
     /\ SettingsRecord.t = "obj") =>
        /\ settings.ok
        /\ DOMAIN settings.config = DOMAIN Config
        /\ \A f \in DOMAIN Config :
               IF \E k \in 1..Len(SettingsRecord.items) :
                      SettingsRecord.items[k].k = <<f>>
               THEN \E k \in 1..Len(SettingsRecord.items) :
                      /\ SettingsRecord.items[k].k = <<f>>
                      /\ \A m \in (k + 1)..Len(SettingsRecord.items) :
                             SettingsRecord.items[m].k # <<f>>
                      /\ settings.config[f] = Native(SettingsRecord.items[k].v)
               ELSE settings.config[f] = Config[f]

\* a record with a known field and an unknown field was loaded
C30_Witness ==
    /\ settings.loaded
    /\ JsonDecode(settings.file).ok
    /\ SettingsRecord.t = "obj"
    /\ Len(SettingsRecord.items) = 2
    /\ \E j \in 1..2 : \E k \in 1..2 :
           /\ SettingsRecord.items[j] = JPair(<<"model_a">>, JStr(<<"v">>))
           /\ SettingsRecord.items[k].k = <<"exec">>
    /\ settings.ok
    /\ settings.config.model_a = <<"v">>
    /\ settings.config.max_iterations = Config.max_iterations

\* no line of the guide file matches the step pattern
NoStepLine(doc) == doc # NoGuide /\ \A k \in 1..Len(doc) : ~doc[k].match

RunErrorKinds ==
    {"FileNotFoundError", "ValueError", "KeyError", "ConnectionError",
     "TimeoutError"}

\* C28: when the run main has called fails with an error of one of the
\* kinds, main ends by returning 1 after printing the message of that kind,
\* and no exception leaves it; main returns 0 only when the run (or the
\* validation of a dry run) completed
C28_ErrorsExitOne ==
    /\ (proc.ended /\ proc.mode \in {"engine", "chain"} /\ pc = "error"
        /\ err \in RunErrorKinds)
           => /\ proc.raised = None
              /\ proc.code = 1
              /\ proc.message.kind = err
    /\ (proc.ended /\ proc.raised = None /\ proc.code = 0)
           => /\ proc.mode \in {"engine", "chain"}
              /\ proc.dry_run \/ pc = "done"

----------------------------------------------------------------------------
(* Claims C31 to C39.                                                      *)

\* the attempt failed in a way after which query tries again
Retried(o) == o \in {"ConnectionError", "ConnectTimeout", "ReadTimeout"}

\* C31: query makes at most 3 attempts for one request; a further attempt
\* follows only an attempt that ended in a connection error or a timeout;
\* when query has returned, its last attempt was the first successful one
\* and the text returned is the text of that response; when it has raised
\* ConnectionError or TimeoutError, the third attempt could not connect,
\* or timed out waiting for the response; the loop never ends without a
\* return or an exception (RuntimeError)
C31_RetryBudget ==
    LET n == Len(client.outcomes) IN
    /\ n <= 3
    /\ \A k \in 1..(n - 1) : Retried(client.outcomes[k])
    /\ client.status = "trying" => client.attempt = n /\ n < 3
    /\ client.status = "returned"
          => /\ n >= 1
             /\ client.outcomes[n] \in {"ok", "no_member"}
             /\ client.outcomes[n] = "ok" => client.response = client.bodies[n]
             /\ client.outcomes[n] = "no_member" => client.response = <<>>
    /\ client.status = "raised"
          => /\ client.raised # "RuntimeError"
             /\ client.raised = "ConnectionError"
                   => n = 3 /\ client.outcomes[n] \in {"ConnectionError", "ConnectTimeout"}
             /\ client.raised = "TimeoutError"
                   => n = 3 /\ client.outcomes[n] = "ReadTimeout"
             /\ client.raised \notin {"ConnectionError", "TimeoutError"}
                   => ~Retried(client.outcomes[n])
    /\ (n = 3 /\ client.outcomes[n] \in {"ConnectionError", "ConnectTimeout"})
          => client.status = "raised" /\ client.raised = "ConnectionError"
    /\ (n = 3 /\ client.outcomes[n] = "ReadTimeout")
          => client.status = "raised" /\ client.raised = "TimeoutError"

\* query has raised TimeoutError: a connection error, a timeout, and a
\* third attempt that timed out
C31_Witness ==
    /\ client.status = "raised"
    /\ client.raised = "TimeoutError"
    /\ client.outcomes = <<"ConnectionError", "ReadTimeout", "ReadTimeout">>

\* C32: the Checkpoint from which a run restored its state keeps the
\* completed-step count, the per-step output list and the accumulated
\* output it had when it was loaded, whatever the run appends afterwards
C32_CheckpointIsCopy ==
    (resume_from # None /\ loaded.ok /\ loaded.ck # NoCheckpoint)
        => /\ checkpoint.completed_steps = loaded.ck.completed_steps
           /\ checkpoint.step_outputs = loaded.ck.step_outputs
           /\ checkpoint.cumulative_output = loaded.ck.cumulative_output

\* C33: the StepContext of the step in flight carries the ordinal that
\* step has in the guide: the (i+1)-th of the ordinals of the guide in
\* ascending order
C33_ContextCarriesOrdinal ==
    (pc \notin {"idle", "error"} /\ ctx # NoContext /\ guide # NoGuide)
        => ctx.step_number = Sorted(DOMAIN StepsDict(guide))[i + 1]

\* a resume path was given to this run and no checkpoint was loaded from it
ResumeMissing == resume_from # None /\ loaded = Loaded(NoCheckpoint)

\* this run was given a resume path at which no file is, and has made no
\* generation request yet
StartsWithoutFile ==
    /\ pc \in Running \cup {"error"}
    /\ resume_from # None
    /\ fs[resume_from] = NoFile
    /\ requests = 0

\* C34: a run given a resume path at which no file is raises no error for
\* it and starts as a run without a resume checkpoint starts: its first
\* step is the step of index 0, processed on an empty Accumulation State
\* (count 0, empty list, empty context), and it ends after the last step
\* of the guide
C34_MissingResumeIsFresh ==
    /\ (StartsWithoutFile /\ pc = "error")
           => ~GuideLoad(guide).ok /\ err = GuideLoad(guide).err
    /\ (StartsWithoutFile /\ GuideLoad(guide).ok)
           => /\ pc = "draft"
              /\ loaded = Loaded(NoCheckpoint)
              /\ i = 0
              /\ state = StateManager
              /\ ctx.previous_output = <<>>
    /\ (ResumeMissing /\ pc \in {"write_output", "done"})
           => i = Len(steps) /\ Len(state.step_outputs) = Len(steps)

\* a run of a new engine over a guide of two steps, given a resume path at
\* which no file is, has processed both steps and is done
C34_Witness ==
    /\ pc = "done"
    /\ ResumeMissing
    /\ fs[resume_from] = NoFile
    /\ Len(steps) = 2
    /\ Len(state.step_outputs) = 2
    /\ runs = 1

\* this run restored a checkpoint whose count is not below the number of
\* parsed steps
ResumedAtEnd == Resumed /\ loaded.ck.completed_steps >= Len(steps)

\* C35: a run that resumed from a checkpoint whose completed-step count is
\* greater than or equal to the number of parsed steps makes no generation
\* request, writes no checkpoint (the checkpoint storage stays as it was),
\* and writes to the output file and returns exactly the checkpoint's
\* accumulated output
C35_ResumeAtEnd ==
    /\ [](ResumedAtEnd
            => /\ pc \in {"write_output", "done"}
               /\ requests = 0
               /\ calls = <<>>
               /\ saves = 0
               /\ state.cumulative_output = loaded.ck.cumulative_output
               /\ pc = "done"
                     => /\ result = loaded.ck.cumulative_output
                        /\ output_file = loaded.ck.cumulative_output)
    /\ [][(ResumedAtEnd /\ pc = "write_output")
             => /\ fs' = fs
                /\ pc' = "done"
                /\ output_file' = loaded.ck.cumulative_output]_vars

\* a run over a guide of one step, resumed from a checkpoint with a greater
\* count and a non-empty accumulated output, with a checkpoint path, is done
C35_Witness ==
    /\ pc = "done"
    /\ Resumed
    /\ Len(steps) = 1
    /\ loaded.ck.completed_steps > 1
    /\ loaded.ck.cumulative_output # <<>>
    /\ result = loaded.ck.cumulative_output
    /\ checkpoint_file # None

\* C36: every engine of a chain runs without a checkpoint to resume from,
\* also when the checkpoint file of its guide exists in the checkpoint
\* directory: no checkpoint is loaded, the first step of every guide is
\* the step of index 0 on an empty Accumulation State, and once the first
\* step is appended the checkpoint file holds the snapshot of this run in
\* place of what it held before
C36_ChainNeverResumes ==
    (chain.active /\ pc \in Running \cup {"done", "error"})
        => /\ resume_from = None
           /\ loaded = Loaded(NoCheckpoint)
           /\ (pc = "draft" /\ requests = 0)
                 => /\ i = 0
                    /\ state = StateManager
                    /\ ctx.previous_output = <<>>
           /\ (checkpoint_file # None /\ i >= 1 /\ pc = "draft" /\ calls = <<>>)
                 => /\ fs[checkpoint_file] = SnapshotOf(state)
                    /\ fs[checkpoint_file] # ChainSeed
           /\ (checkpoint_file # None /\ pc \in {"write_output", "done"}
               /\ Len(steps) >= 1)
                 => fs[checkpoint_file] = SnapshotOf(state)

\* the second guide of a chain is at its first step, on an empty state,
\* while its checkpoint file still holds what the earlier chain left; the
\* checkpoint file of the first guide was overwritten
C36_Witness ==
    /\ chain.active
    /\ chain.idx = 1
    /\ pc = "draft"
    /\ requests = 0
    /\ state = StateManager
    /\ checkpoint_file = ChainCheckpointNames[2]
    /\ fs[checkpoint_file] = ChainSeed
    /\ fs[ChainCheckpointNames[1]] # ChainSeed

\* the text a stage hands on: hook(text) when the hook is supplied
Hooked(hook, text) == IF hook \in hooks THEN HookFn(hook, text) ELSE text

\* C37: with max_iterations <= 0 a step makes one generation request, the
\* draft request; Refine and Harden make none and return the text they
\* were given, so the output of the step is the draft's response after
\* the hooks that are supplied
C37_NoPassWithoutBudget ==
    max_iterations <= 0
        => /\ pc \in {"draft", "append", "error"}
           /\ requests <= 1
           /\ Len(calls) = requests
           /\ \A k \in 1..Len(calls) : calls[k].model = "model_a"
           /\ pc = "append"
                 => /\ requests = 1
                    /\ calls[1].ok
                    /\ raw.draft = calls[1].response
                    /\ raw.corrected = ctx.draft
                    /\ raw.secured = ctx.corrected
                    /\ ctx.secured
                          = Hooked("post_security",
                                Hooked("post_correction",
                                    Hooked("post_draft", calls[1].response)))

\* process has returned with max_iterations = 0 and the three hooks
C37_Witness ==
    /\ max_iterations = 0
    /\ pc = "append"
    /\ hooks = HookNames
    /\ requests = 1
    /\ ctx.secured = calls[1].response \o <<"D", "C", "S">>

----------------------------------------------------------------------------
(* The monitoring specification: one thread calling                        *)
(* start_background_sampling and stop_background_sampling of one           *)
(* PerformanceMonitor, and the _sample_loop threads these calls start.     *)

MaxToggles == 4
MaxSamples == 3

\* the monitor is the only object the sampling methods touch
OnlyMonitor ==
    /\ UNCHANGED <<script, requests, client, collector>>
    /\ UNCHANGED engineVars

\* start_background_sampling: nothing when _running is set, else it sets
\* _running and starts a new thread, which replaces self._thread
start_background_sampling ==
    /\ OnlyMonitor
    /\ monitor.caller = "idle"
    /\ monitor.calls < MaxToggles
    /\ monitor' =
           IF monitor._running
           THEN [monitor EXCEPT !.calls = @ + 1, !.stopped = FALSE]
           ELSE [monitor EXCEPT
                    !.calls = @ + 1,
                    !.stopped = FALSE,
                    !._running = TRUE,
                    !.threads = Append(@, "check"),
                    !._thread = Len(monitor.threads) + 1]

\* stop_background_sampling up to the join: it clears _running, and
\* returns at once when no thread was ever started
stop_background_sampling ==
    /\ OnlyMonitor
    /\ monitor.caller = "idle"
    /\ monitor.calls < MaxToggles
    /\ monitor' =
           [monitor EXCEPT
               !.calls = @ + 1,
               !._running = FALSE,
               !.caller = IF monitor._thread # NoThread THEN "join" ELSE "idle",
               !.stopped = IF monitor._thread # NoThread THEN @ ELSE TRUE]

\* self._thread.join(timeout=5) returns: the thread has returned, or five
\* seconds have passed while it sleeps in time.sleep(self.sample_interval)
JoinReturns ==
    /\ OnlyMonitor
    /\ monitor.caller = "join"
    /\ monitor.threads[monitor._thread] \in {"exited", "sleep"}
    /\ monitor' = [monitor EXCEPT !.caller = "idle", !.stopped = TRUE]

\* while self._running
LoopCheck ==
    /\ OnlyMonitor
    /\ \E t \in DOMAIN monitor.threads :
           /\ monitor.threads[t] = "check"
           /\ monitor' =
                  [monitor EXCEPT
                      !.threads[t] = IF monitor._running THEN "sample" ELSE "exited"]

\* self.sample(): the sample is appended
LoopSample ==
    /\ OnlyMonitor
    /\ \E t \in DOMAIN monitor.threads :
           /\ monitor.threads[t] = "sample"
           /\ monitor.samples < MaxSamples
           /\ monitor' =
                  [monitor EXCEPT
                      !.samples = @ + 1,
                      !.late = IF monitor.stopped THEN @ + 1 ELSE @,
                      !.threads[t] = "sleep"]

\* time.sleep(self.sample_interval) returns
LoopWake ==
    /\ OnlyMonitor
    /\ \E t \in DOMAIN monitor.threads :
           /\ monitor.threads[t] = "sleep"
           /\ monitor' = [monitor EXCEPT !.threads[t] = "check"]

InitMonitor ==
    /\ script = <<"x">>
    /\ client = NoClient
    /\ collector = NoCollector
    /\ monitor = NoMonitor
    /\ NoEngine

NextMonitor ==
    \/ start_background_sampling
    \/ stop_background_sampling
    \/ JoinReturns
    \/ LoopCheck
    \/ LoopSample
    \/ LoopWake

SpecMonitor == InitMonitor /\ [][NextMonitor]_vars

\* the thread is in a workflow method that was called for a workflow
\* that is tracked or that the method starts to track
InWorkflowMethod(t) ==
    /\ collector.threads[t].pc = "enter"
    /\ \/ collector.threads[t].op = "start_workflow"
       \/ collector.workflows[collector.threads[t].workflow_id].tracked

\* C38: each call of start_workflow, complete_step, fail_step and
\* end_workflow for a tracked workflow returns, and when it has returned
\* the calling thread does not hold the collector's lock
C38_WorkflowMethodsReturn ==
    \A t \in Threads :
        InWorkflowMethod(t)
            ~> (collector.threads[t].pc = "returned" /\ collector.lock # t)

\* the _sample_loop threads that have found _running set and are taking
\* a sample
Sampling == {t \in DOMAIN monitor.threads : monitor.threads[t] = "sample"}

\* C39: at any time at most one background thread is taking a sample, and
\* no sample is appended between the return of stop_background_sampling
\* and the next start_background_sampling
C39_OneSampler ==
    /\ Cardinality(Sampling) <= 1
    /\ monitor.late = 0

============================================================================
